---- MODULE Spec2Model ----
(***************************************************************************)
(* A model of the onix installer backend                                   *)
(* (deploy/onix_installer/backend).                                        *)
(*                                                                         *)
(* Part 1: the health poller of services/health_checks.py.                 *)
(*   run_websocket_health_check is one coordinating coroutine; every       *)
(*   action below is the code it runs between two suspension points.       *)
(*   perform_single_health_check is one task per pending service and       *)
(*   attempt, started by the fan-out and completed by ProbeComplete.       *)
(*                                                                         *)
(* The observer channel (websocket) is modelled by wsOpen: a send on an    *)
(* open channel delivers the message (appends it to sent), the channel may *)
(* become unusable at any moment, and from then on every send raises.      *)
(*                                                                         *)
(* The event-loop clock is read only by the deadline check at the head of  *)
(* the loop, so the time that passes during an attempt and its delay is    *)
(* added to the clock when the delay ends: at least the delay itself, plus *)
(* a lag (the probes' duration, scheduling).                               *)
(***************************************************************************)
EXTENDS Integers, Sequences, FiniteSets, TLC

(***************************************************************************)
(* Bounds of the model.                                                    *)
(***************************************************************************)
\* the delay is not awaited again once this many attempts have been started
MaxAttempts == 2

(***************************************************************************)
(* Program constants: HealthCheckConstants.                                *)
(***************************************************************************)
HEALTH_CHECK_TIMEOUT_SECONDS == 15 * 60
HEALTH_CHECK_ATTEMPT_DELAY_SECONDS == 10

(***************************************************************************)
(* Values: a JSON/Python value is a record of its type and its content.    *)
(***************************************************************************)
ServiceSeq == <<"service_a", "service_b">>
UrlSeq == <<"url-a.com", "url-b.com">>

Str(s) == [t |-> "str", v |-> s]
NonStr(s) == [t |-> "int", v |-> s]

ServiceNames == {ServiceSeq[i] : i \in 1..Len(ServiceSeq)}

\* the strictly increasing index sequences over 1..n: the key orders of the
\* dictionaries the model feeds to the poller
RECURSIVE IncreasingSeqs(_)
IncreasingSeqs(n) ==
    IF n = 0 THEN {<<>>}
    ELSE LET prev == IncreasingSeqs(n - 1)
         IN  prev \cup {Append(s, n) : s \in prev}

\* a dictionary is the sequence of its items in insertion order
DictOf(ids) == [kind |-> "dict",
                items |-> [i \in 1..Len(ids) |->
                              <<Str(ServiceSeq[ids[i]]), Str(UrlSeq[ids[i]])>>]]

ValidPayloads == {DictOf(ids) : ids \in IncreasingSeqs(Len(ServiceSeq))}

\* payloads of another shape: not a dict, a dict with a non-string value, a
\* dict with a non-string key
InvalidPayloads ==
    { [kind |-> "str",  items |-> <<>>],
      [kind |-> "list", items |-> <<>>],
      [kind |-> "dict", items |-> << <<Str(ServiceSeq[1]), NonStr("8080")>> >>],
      [kind |-> "dict", items |-> << <<NonStr("1"), Str(UrlSeq[1])>> >>],
      [kind |-> "dict", items |-> << <<Str(ServiceSeq[1]), Str(UrlSeq[1])>>,
                                     <<Str(ServiceSeq[2]), NonStr("8080")>> >>] }

Payloads == ValidPayloads \cup InvalidPayloads

\* the clock lags of one attempt and its delay: none, and the two lags that
\* put the next check on the deadline and just behind it
Lags == { 0,
          HEALTH_CHECK_TIMEOUT_SECONDS - HEALTH_CHECK_ATTEMPT_DELAY_SECONDS,
          HEALTH_CHECK_TIMEOUT_SECONDS }

\* the event-loop clock when the poller is entered
StartClocks == {7}

\* what client.get(health_url) can do: return a response with some status,
\* raise httpx.RequestError, raise any other exception
Outcomes ==
    { [kind |-> "response", status |-> "200"],
      [kind |-> "response", status |-> "204"],
      [kind |-> "response", status |-> "503"],
      [kind |-> "request_error", status |-> "None"],
      [kind |-> "exception", status |-> "None"] }

VARIABLES
    payload,      \* service_urls_to_check
    pc,           \* position of run_websocket_health_check
    pending,      \* pending_services: the keys, in dictionary order
    attempt,      \* attempt
    start_time,   \* start_time
    now,          \* asyncio.get_event_loop().time()
    tasks,        \* the services of the tasks handed to asyncio.gather
    probes,       \* per service: the state of its perform_single_health_check task
    sent,         \* the messages the observer has received, in order
    calls,        \* the probes started, in order: [attempt, service]
    wsOpen,       \* the observer channel is usable
    clientOpen,   \* the httpx.AsyncClient is inside its "async with" block
    exc,          \* the exception the running coroutine ended with
    flow,         \* the coroutine that runs: health check, streamer, deployment
    process,      \* the child process of a deployment flow
    nread,        \* the reads of process.stdout that have returned
    logged,       \* the lines given to logger.info by the streamer, in order
    request,      \* app_deployment_request
    files,        \* the files the application flow reads and writes
    environ,      \* os.environ
    locals        \* the local variables of run_app_deployment

vars == <<payload, pc, pending, attempt, start_time, now, tasks, probes, sent,
          calls, wsOpen, clientOpen, exc, flow, process, nread, logged,
          request, files, environ, locals>>

\* the state of the health poller alone, and the state of the deployment
\* flows alone
pollerVars == <<payload, pending, attempt, start_time, now, tasks, probes,
                clientOpen>>
deployVars == <<flow, process, nread, logged>>
appVars == <<request, files, environ, locals>>

\* the outputs artifact (outputs.json) as the script leaves it: its state and
\* its parsed content
NoArtifact == [state |-> "missing", data |-> [output_key |-> [value |-> ""]]]

\* no child process has been launched
NoProcess ==
    [st |-> "none", stdout |-> FALSE, output |-> <<>>, artifact |-> NoArtifact]

\* no request: the flow that runs has none
NoRequest ==
    [components |-> <<>>, domain_names |-> <<>>, image_urls |-> <<>>,
     adapter_config |-> [present |-> FALSE, enable_schema_validation |-> "None"]]

\* outputs.json is missing and nothing has been generated
NoFiles == [outputs |-> NoArtifact, dirs |-> {}, present |-> <<>>]

\* the local variables services, env_vars_for_script and subprocess_env of
\* run_app_deployment before they are assigned
NoLocals ==
    [services |-> <<>>, env_vars_for_script |-> <<>>, subprocess_env |-> <<>>]

\* the environment of the server: a variable of its own, and one with the
\* name of a variable that the application flow computes
Environ == [x \in {"PATH", "ENABLE_SCHEMA_VALIDATION"} |-> "ambient"]

\* no application flow runs: nothing of it is there
AppIdle ==
    /\ request = NoRequest
    /\ files = NoFiles
    /\ environ = Environ
    /\ locals = NoLocals

(***************************************************************************)
(* Messages (the JSON objects given to websocket.send_text).               *)
(***************************************************************************)
MsgInvalidPayload == [type |-> "error", message |-> "Invalid payload format"]
MsgStarting == [type |-> "info", message |-> "Starting health checks"]
\* fault: the skipped notice is sent as an error
MsgSkipped_AsError == [type |-> "error", message |-> "Health check skipped"]
MsgSkipped == [type |-> "warning", message |-> "Health check skipped"]
MsgTimeout(elapsed, names) ==
    [type |-> "error", action |-> "health_check_timeout",
     message |-> "timed out", elapsed |-> elapsed, unhealthy |-> names]
MsgAttempt(n, count, elapsed) ==
    [type |-> "log", message |-> "Attempt", attempt |-> n,
     checking |-> count, elapsed |-> elapsed]
MsgAllHealthy ==
    [type |-> "success", action |-> "all_services_healthy",
     message |-> "All healthy"]
MsgRetrying(count) ==
    [type |-> "log", message |-> "Retrying", pending |-> count,
     delay |-> HEALTH_CHECK_ATTEMPT_DELAY_SECONDS]

\* the per-service result message of perform_single_health_check
ProbeMessage(name, url, o) ==
    IF o.kind = "response"
    THEN IF o.status = "200"
         THEN [type |-> "success", service |-> name, url |-> url,
               status_code |-> o.status, message |-> "PASSED"]
         ELSE [type |-> "warning", service |-> name, url |-> url,
               status_code |-> o.status, message |-> "FAILED HTTP"]
    ELSE IF o.kind = "request_error"
         THEN [type |-> "warning", service |-> name, url |-> url,
               status_code |-> "None", message |-> "FAILED Request Error"]
         ELSE [type |-> "error", service |-> name, url |-> url,
               status_code |-> "None", message |-> "unexpected error"]

\* fault: any success status counts as healthy (response.is_success)
ProbeVerdict_AnySuccess(o) ==
    IF o.kind = "response" THEN o.status \in {"200", "204"} ELSE FALSE

\* the value perform_single_health_check returns
ProbeVerdict(o) ==
    IF o.kind = "response" THEN o.status = "200" ELSE FALSE

(***************************************************************************)
(* Pure parts of run_websocket_health_check.                               *)
(***************************************************************************)
\* fault: only the type of the payload is checked, not its items
ValidPayload_OnlyDict(p) == p.kind = "dict"

\* isinstance(d, dict) and all(isinstance(k, str) and isinstance(v, str) ...)
ValidPayload(p) ==
    /\ p.kind = "dict"
    /\ \A i \in 1..Len(p.items) :
          p.items[i][1].t = "str" /\ p.items[i][2].t = "str"

\* fault: the pending set starts with every known service
PayloadNames_AllKnown(p) == ServiceSeq

\* {name: url for name, url in service_urls_to_check.items()}: the keys
PayloadNames(p) == [i \in 1..Len(p.items) |-> p.items[i][1].v]

\* the url of a service of the payload
UrlOf(p, name) ==
    LET i == CHOOSE j \in 1..Len(p.items) : p.items[j][1].v = name
    IN  p.items[i][2].v

\* fault: the elapsed seconds are compared with the deadline taken as minutes
DeadlineExceeded_Minutes(elapsed) == elapsed > HEALTH_CHECK_TIMEOUT_SECONDS * 60

\* elapsed_time > total_timeout_seconds
DeadlineExceeded(elapsed) == elapsed > HEALTH_CHECK_TIMEOUT_SECONDS

\* fault: the clock itself is taken for the elapsed time
Elapsed_SinceEpoch(current_time, start) == current_time

\* elapsed_time = current_time - start_time
Elapsed(current_time, start) == current_time - start

\* results of asyncio.gather: one per task, in the order of the tasks
GatherResults(ts, pr) == [i \in 1..Len(ts) |-> pr[ts[i]].result]

\* fault: the results are read in the reverse of the order of the tasks
PassedThisRound_Misaligned(pend, results) ==
    {pend[i] : i \in {j \in 1..Len(pend) : results[Len(pend) + 1 - j]}}

\* services_that_passed_this_round: the i-th pending service when results[i]
PassedThisRound(pend, results) ==
    {pend[i] : i \in {j \in 1..Len(pend) : results[j]}}

\* fault: the services that passed are not deleted
RemovePassed_Nothing(pend, passed) == pend

\* for service_name in services_that_passed_this_round: del pending[...]
RemovePassed(pend, passed) == SelectSeq(pend, LAMBDA n : n \notin passed)

SeqToSet(s) == {s[i] : i \in 1..Len(s)}

\* fault: the pending set is never taken for empty
NoneLeft_Never(pend) == FALSE

\* not pending_services
NoneLeft(pend) == Len(pend) = 0

\* fault: the coordinator goes on when the first task has returned
\* (asyncio.wait with FIRST_COMPLETED)
AnyTaskDone(ts, pr) == \E i \in 1..Len(ts) : pr[ts[i]].st = "done"

\* asyncio.gather returns when every task it was given has returned
AllTasksDone(ts, pr) == \A i \in 1..Len(ts) : pr[ts[i]].st = "done"

\* asyncio.gather raises as soon as one of its tasks has raised
SomeTaskRaised(ts, pr) == \E i \in 1..Len(ts) : pr[ts[i]].st = "raised"

NoOutcome == [kind |-> "none", status |-> "None"]
IdleProbe == [st |-> "idle", outcome |-> NoOutcome, result |-> FALSE]
RunningProbe == [st |-> "running", outcome |-> NoOutcome, result |-> FALSE]

\* fault: the "except Exception" handler raises the exception again after
\* reporting it
ProbeEnd_Reraise(o, sendOk) ==
    IF sendOk /\ o.kind # "exception"
    THEN [st |-> "done", outcome |-> o, result |-> ProbeVerdict(o)]
    ELSE [st |-> "raised", outcome |-> NoOutcome, result |-> FALSE]

\* how a perform_single_health_check task ends when client.get has answered
\* with o.  The result message is sent (sendOk: the channel took it); when
\* that send fails inside the try block the "except Exception" handler sends
\* again, on a channel that stays unusable, and the task ends with the
\* exception of that send.
ProbeEnd(o, sendOk) ==
    IF sendOk
    THEN [st |-> "done", outcome |-> o, result |-> ProbeVerdict(o)]
    ELSE [st |-> "raised", outcome |-> NoOutcome, result |-> FALSE]

(***************************************************************************)
(* The coordinating coroutine.                                             *)
(***************************************************************************)
Init ==
    /\ payload \in Payloads
    /\ pc = "validate"
    /\ pending = <<>>
    /\ attempt = 0
    /\ start_time = 0
    /\ now \in StartClocks
    /\ tasks = <<>>
    /\ probes = [n \in ServiceNames |-> IdleProbe]
    /\ sent = <<>>
    /\ calls = <<>>
    /\ wsOpen = TRUE
    /\ clientOpen = FALSE
    /\ exc = "none"
    /\ flow = "health_check"
    /\ process = NoProcess
    /\ nread = 0
    /\ logged = <<>>
    /\ AppIdle

\* a send outside the try block fails: the exception leaves the function
RaiseOutsideTry ==
    /\ pc' = "raised"
    /\ exc' = "send_failed"
    /\ UNCHANGED <<sent, clientOpen>>

\* fault: the handler of the try block logs the exception and does not raise
RaiseInsideTry_Swallow ==
    /\ pc' = "returned"
    /\ exc' = "none"
    /\ clientOpen' = FALSE
    /\ UNCHANGED sent

\* an exception inside "try: async with client": the client is closed, the
\* exception is logged and raised again
RaiseInsideTry ==
    /\ pc' = "raised"
    /\ exc' = "send_failed"
    /\ clientOpen' = FALSE
    /\ UNCHANGED sent

\* lines 92-99: the payload is not a dict of strings
RejectPayload ==
    /\ pc = "validate"
    /\ ~ValidPayload(payload)
    /\ IF wsOpen
       THEN /\ sent' = Append(sent, MsgInvalidPayload)
            /\ pc' = "returned"
            /\ UNCHANGED <<exc, clientOpen>>
       ELSE RaiseOutsideTry
    /\ UNCHANGED <<payload, pending, attempt, start_time, now, tasks, probes,
                   calls, wsOpen>>
    /\ UNCHANGED deployVars
    /\ UNCHANGED appVars

\* lines 101-105: the start notice
SendStartNotice ==
    /\ pc = "validate"
    /\ ValidPayload(payload)
    /\ IF wsOpen
       THEN /\ sent' = Append(sent, MsgStarting)
            /\ pc' = "started"
            /\ UNCHANGED <<exc, clientOpen>>
       ELSE RaiseOutsideTry
    /\ UNCHANGED <<payload, pending, attempt, start_time, now, tasks, probes,
                   calls, wsOpen>>
    /\ UNCHANGED deployVars
    /\ UNCHANGED appVars

\* lines 107-113: an empty dictionary
SkipEmpty ==
    /\ pc = "started"
    /\ Len(payload.items) = 0
    /\ IF wsOpen
       THEN /\ sent' = Append(sent, MsgSkipped)
            /\ pc' = "returned"
            /\ UNCHANGED <<exc, clientOpen>>
       ELSE RaiseOutsideTry
    /\ UNCHANGED <<payload, pending, attempt, start_time, now, tasks, probes,
                   calls, wsOpen>>
    /\ UNCHANGED deployVars
    /\ UNCHANGED appVars

\* lines 115-123: the start time, the pending set, the client, attempt = 0
EnterPolling ==
    /\ pc = "started"
    /\ Len(payload.items) > 0
    /\ start_time' = now
    /\ pending' = PayloadNames(payload)
    /\ clientOpen' = TRUE
    /\ attempt' = 0
    /\ pc' = "loop"
    /\ UNCHANGED <<payload, now, tasks, probes, sent, calls, wsOpen, exc>>
    /\ UNCHANGED deployVars
    /\ UNCHANGED appVars

\* lines 124-149: the head of the loop up to the await of asyncio.gather
StartAttempt ==
    /\ pc = "loop"
    /\ ~NoneLeft(pending)
    /\ attempt' = attempt + 1
    /\ LET elapsed_time == Elapsed(now, start_time) IN
       IF DeadlineExceeded(elapsed_time)
       THEN /\ IF wsOpen
               THEN /\ sent' = Append(sent, MsgTimeout(elapsed_time, pending))
                    /\ pc' = "returned"
                    /\ clientOpen' = FALSE
                    /\ UNCHANGED exc
               ELSE RaiseInsideTry
            /\ UNCHANGED <<tasks, probes, calls>>
       ELSE IF wsOpen
            THEN /\ sent' = Append(sent, MsgAttempt(attempt', Len(pending),
                                                    elapsed_time))
                 /\ tasks' = pending
                 /\ probes' = [n \in ServiceNames |->
                                 IF n \in SeqToSet(pending)
                                 THEN RunningProbe
                                 ELSE probes[n]]
                 /\ calls' = calls \o [i \in 1..Len(pending) |->
                                 [attempt |-> attempt', service |-> pending[i]]]
                 /\ pc' = "gather"
                 /\ UNCHANGED <<exc, clientOpen>>
            ELSE /\ RaiseInsideTry
                 /\ UNCHANGED <<tasks, probes, calls>>
    /\ UNCHANGED <<payload, pending, start_time, now, wsOpen>>
    /\ UNCHANGED deployVars
    /\ UNCHANGED appVars

\* lines 29-84: one perform_single_health_check task, from the answer of
\* client.get to its end
ProbeComplete(n) ==
    /\ probes[n].st = "running"
    /\ \E o \in Outcomes :
          /\ sent' = IF wsOpen
                     THEN Append(sent, ProbeMessage(n, UrlOf(payload, n), o))
                     ELSE sent
          /\ probes' = [probes EXCEPT ![n] = ProbeEnd(o, wsOpen)]
    /\ UNCHANGED <<payload, pc, pending, attempt, start_time, now, tasks,
                   calls, wsOpen, clientOpen, exc>>
    /\ UNCHANGED deployVars
    /\ UNCHANGED appVars

\* fault: the success message is decided on the services that passed this
\* round instead of on the pending set that is left
GatherReturn_SuccessIfAnyPassed ==
    /\ pc = "gather"
    /\ AllTasksDone(tasks, probes)
    /\ LET results == GatherResults(tasks, probes)
           passed == PassedThisRound(pending, results)
           rest == RemovePassed(pending, passed)
       IN  /\ pending' = rest
           /\ IF wsOpen
              THEN IF passed # {}
                   THEN /\ sent' = Append(sent, MsgAllHealthy)
                        /\ pc' = "returned"
                        /\ clientOpen' = FALSE
                        /\ UNCHANGED exc
                   ELSE /\ sent' = Append(sent, MsgRetrying(Len(rest)))
                        /\ pc' = "sleeping"
                        /\ UNCHANGED <<exc, clientOpen>>
              ELSE RaiseInsideTry
    /\ UNCHANGED <<payload, attempt, start_time, now, tasks, probes, calls,
                   wsOpen>>
    /\ UNCHANGED deployVars
    /\ UNCHANGED appVars

\* lines 149-175: asyncio.gather returns the results of all tasks
GatherReturn ==
    /\ pc = "gather"
    /\ AllTasksDone(tasks, probes)
    /\ LET results == GatherResults(tasks, probes)
           passed == PassedThisRound(pending, results)
           rest == RemovePassed(pending, passed)
       IN  /\ pending' = rest
           /\ IF wsOpen
              THEN IF NoneLeft(rest)
                   THEN /\ sent' = Append(sent, MsgAllHealthy)
                        /\ pc' = "returned"
                        /\ clientOpen' = FALSE
                        /\ UNCHANGED exc
                   ELSE /\ sent' = Append(sent, MsgRetrying(Len(rest)))
                        /\ pc' = "sleeping"
                        /\ UNCHANGED <<exc, clientOpen>>
              ELSE RaiseInsideTry
    /\ UNCHANGED <<payload, attempt, start_time, now, tasks, probes, calls,
                   wsOpen>>
    /\ UNCHANGED deployVars
    /\ UNCHANGED appVars

\* line 149: a task ended with an exception: asyncio.gather raises it at once
\* and leaves the other tasks running
GatherRaise ==
    /\ pc = "gather"
    /\ SomeTaskRaised(tasks, probes)
    /\ RaiseInsideTry
    /\ UNCHANGED <<payload, pending, attempt, start_time, now, tasks, probes,
                   calls, wsOpen>>
    /\ UNCHANGED deployVars
    /\ UNCHANGED appVars

\* line 175: asyncio.sleep(delay_between_attempts) ends
Wake ==
    /\ pc = "sleeping"
    /\ attempt < MaxAttempts
    /\ \E lag \in Lags :
          now' = now + HEALTH_CHECK_ATTEMPT_DELAY_SECONDS + lag
    /\ pc' = "loop"
    /\ UNCHANGED <<payload, pending, attempt, start_time, tasks, probes, sent,
                   calls, wsOpen, clientOpen, exc>>
    /\ UNCHANGED deployVars
    /\ UNCHANGED appVars

\* the observer goes away: every later send raises
ChannelBreaks ==
    /\ wsOpen
    /\ pc \notin {"returned", "raised"}
    /\ wsOpen' = FALSE
    /\ UNCHANGED <<payload, pc, pending, attempt, start_time, now, tasks,
                   probes, sent, calls, clientOpen, exc>>
    /\ UNCHANGED deployVars
    /\ UNCHANGED appVars

Next ==
    \/ RejectPayload
    \/ SendStartNotice
    \/ SkipEmpty
    \/ EnterPolling
    \/ StartAttempt
    \/ \E n \in ServiceNames : ProbeComplete(n)
    \/ GatherReturn
    \/ GatherRaise
    \/ Wake
    \/ ChannelBreaks

Spec == Init /\ [][Next]_vars

(***************************************************************************)
(* Reading the log of delivered messages.                                  *)
(***************************************************************************)
HasAction(m, a) == "action" \in DOMAIN m /\ m.action = a
IsTimeout(m) == HasAction(m, "health_check_timeout")
IsAllHealthy(m) == HasAction(m, "all_services_healthy")
IsAttempt(m) == "attempt" \in DOMAIN m
IsResult(m) == "service" \in DOMAIN m
IsRetrying(m) == "delay" \in DOMAIN m
IsRound(m) == IsRetrying(m) \/ IsAllHealthy(m) \/ IsTimeout(m)
IsPassed(m) == IsResult(m) /\ m.status_code = "200"

LastSent == sent[Len(sent)]
TimeoutSent == \E i \in 1..Len(sent) : IsTimeout(sent[i])
AllHealthySent == \E i \in 1..Len(sent) : IsAllHealthy(sent[i])
PollingEntered == pc \notin {"validate", "started"} /\ attempt > 0
Ended == pc \in {"returned", "raised"}

\* the response of a probe is a failure of any kind
Failing(o) == o.kind \in {"request_error", "exception"}
                 \/ (o.kind = "response" /\ o.status # "200")

\* the services probed in attempt k, and how often each was
ProbedIn(k) == {calls[i].service : i \in {j \in 1..Len(calls) : calls[j].attempt = k}}
TimesProbed(n, k) ==
    Cardinality({i \in 1..Len(calls) : calls[i] = [attempt |-> k, service |-> n]})

\* the position in the log of the start message of attempt k (0: not sent)
AttemptIndex(k) ==
    IF \E i \in 1..Len(sent) : IsAttempt(sent[i]) /\ sent[i].attempt = k
    THEN CHOOSE i \in 1..Len(sent) : IsAttempt(sent[i]) /\ sent[i].attempt = k
    ELSE 0

\* the services reported as passed before position i of the log
PassedBefore(i) == {sent[j].service : j \in {h \in 1..(i - 1) : IsPassed(sent[h])}}

(***************************************************************************)
(* C1: the deadline is measured from one start time, taken when polling is *)
(* entered and never changed, and is checked by every step that leaves the *)
(* head of the loop: when that check finds now - start_time greater than   *)
(* the deadline, the step starts no probe and ends the poller, and on a    *)
(* usable channel it delivers one timeout error naming exactly the pending *)
(* services; once the timeout error is sent nothing changes any more.      *)
(***************************************************************************)
HC_DeadlineCheck ==
    /\ [](/\ Cardinality({i \in 1..Len(sent) : IsTimeout(sent[i])}) <= 1
          /\ TimeoutSent =>
                /\ pc = "returned"
                /\ IsTimeout(LastSent)
                /\ LastSent.unhealthy = pending
                /\ \A n \in ServiceNames : probes[n].st # "running")
    /\ [][ /\ (pc \notin {"validate", "started"}) => start_time' = start_time
           /\ (pc = "started" /\ pc' = "loop") =>
                 (start_time' = now /\ calls = <<>>)
           /\ (calls' # calls) =>
                 /\ pc = "loop"
                 /\ ~(now - start_time > HEALTH_CHECK_TIMEOUT_SECONDS)
           /\ (pc = "loop" /\ pc' # "loop"
                 /\ now - start_time > HEALTH_CHECK_TIMEOUT_SECONDS) =>
                 /\ calls' = calls
                 /\ pending' = pending
                 /\ pc' \in {"returned", "raised"}
                 /\ wsOpen =>
                       /\ pc' = "returned"
                       /\ Len(sent') = Len(sent) + 1
                       /\ IsTimeout(sent'[Len(sent')])
                       /\ sent'[Len(sent')].unhealthy = pending
                 /\ ~wsOpen => sent' = sent
           /\ TimeoutSent => UNCHANGED <<sent, calls, pc, attempt, pending>>
         ]_vars

HC_DeadlineCheck_Witness ==
    /\ pc = "returned"
    /\ Len(sent) > 0
    /\ IsTimeout(LastSent)
    /\ LastSent.unhealthy = pending
    /\ Len(pending) > 0
    /\ Len(calls) > 0

(***************************************************************************)
(* C2: for a valid non-empty payload, a step delivers all_services_healthy *)
(* exactly when it empties the pending set at the end of an attempt (on a  *)
(* usable channel); the message is in the log at most once, and once it is *)
(* sent there is no further attempt, probe or message.                     *)
(***************************************************************************)
HC_AllHealthy ==
    /\ [](/\ Cardinality({i \in 1..Len(sent) : IsAllHealthy(sent[i])}) <= 1
          /\ AllHealthySent =>
                /\ pc = "returned"
                /\ IsAllHealthy(LastSent)
                /\ pending = <<>>
                /\ \A n \in ServiceNames : probes[n].st # "running")
    /\ [][ /\ (Len(sent') = Len(sent) + 1 /\ IsAllHealthy(sent'[Len(sent')])) <=>
                 (pc = "gather" /\ pc' # "gather" /\ wsOpen
                     /\ Len(pending) > 0 /\ Len(pending') = 0)
           /\ AllHealthySent => UNCHANGED <<sent, calls, attempt, pc, pending>>
         ]_vars

HC_AllHealthy_Witness ==
    /\ pc = "returned"
    /\ Len(sent) > 0
    /\ IsAllHealthy(LastSent)
    /\ Len(payload.items) = 2
    /\ attempt = 2
    /\ pending = <<>>

(***************************************************************************)
(* C3: the pending set, once filled on entry, is changed only by the       *)
(* coordinator's step that collects the results, and only when no probe of *)
(* the attempt is still running; that step removes exactly the services    *)
(* whose probe of this attempt answered 200, keeping the others in order.  *)
(***************************************************************************)
HC_PendingAtomic ==
    [][ (pending' # pending /\ pc # "started") =>
           /\ pc = "gather"
           /\ \A n \in ServiceNames : probes[n].st # "running"
           /\ \A i \in 1..Len(tasks) : probes[tasks[i]].st = "done"
           /\ probes' = probes
           /\ pending' = SelectSeq(pending,
                 LAMBDA n : ~(probes[n].outcome.kind = "response"
                                /\ probes[n].outcome.status = "200"))
      ]_vars

HC_PendingAtomic_Witness ==
    /\ pc = "sleeping"
    /\ Len(payload.items) = 2
    /\ pending = <<"service_a">>
    /\ probes["service_b"].st = "done"
    /\ probes["service_b"].result

(***************************************************************************)
(* C4: a probe that has returned a verdict returned True if and only if    *)
(* client.get answered with status 200; every other status, a request      *)
(* error and any other exception give False.                               *)
(***************************************************************************)
HC_VerdictIff200 ==
    \A n \in ServiceNames :
        probes[n].st = "done" =>
            (probes[n].result <=>
                (probes[n].outcome.kind = "response"
                    /\ probes[n].outcome.status = "200"))

HC_VerdictIff200_Witness ==
    /\ probes["service_a"].st = "done"
    /\ probes["service_a"].outcome = [kind |-> "response", status |-> "204"]
    /\ ~probes["service_a"].result
    /\ probes["service_b"].st = "done"
    /\ probes["service_b"].result

(***************************************************************************)
(* C5: in every attempt k that has been started, exactly one probe was     *)
(* started for each service of the payload that had not been reported as   *)
(* passed before the attempt, and none for any other service; so a service *)
(* that passed in an earlier attempt is never probed again.                *)
(***************************************************************************)
HC_OneProbePerPending ==
    /\ \A i \in 1..Len(calls) : calls[i].attempt \in 1..attempt
    /\ \A k \in 1..attempt :
          LET idx == AttemptIndex(k)
              passed == PassedBefore(idx)
              names == SeqToSet(PayloadNames(payload))
          IN  \A n \in ServiceNames :
                 TimesProbed(n, k) =
                    IF idx > 0 /\ n \in names /\ n \notin passed
                    THEN 1 ELSE 0

HC_OneProbePerPending_Witness ==
    /\ AttemptIndex(2) > 0
    /\ PassedBefore(AttemptIndex(2)) = {"service_b"}
    /\ ProbedIn(1) = {"service_a", "service_b"}
    /\ ProbedIn(2) = {"service_a"}
    /\ probes["service_a"].st = "done"

\* the position of the start message of the attempt that position i belongs to
LastAttemptBefore(i) ==
    CHOOSE a \in 1..(i - 1) :
        /\ IsAttempt(sent[a])
        /\ \A b \in (a + 1)..(i - 1) : ~IsAttempt(sent[b])

(***************************************************************************)
(* C6: the log of a run on a valid payload is ordered.  The start notice   *)
(* is first and occurs once.  The start messages of the attempts carry the *)
(* numbers 1, 2, ... in order, each directly after the start notice or the *)
(* retry notice of the attempt before.  A result message follows only the  *)
(* start message or a result message of its attempt.  A retry or           *)
(* all-healthy message closes an attempt after one result for each service *)
(* the attempt checks; a timeout message directly follows a retry notice.  *)
(* Nothing follows an all-healthy, timeout or skipped message.             *)
(***************************************************************************)
HC_MessageOrder ==
    ValidPayload(payload) =>
      \A i \in 1..Len(sent) :
        LET m == sent[i] IN
        /\ (i = 1) <=> (m = [type |-> "info", message |-> "Starting health checks"])
        /\ i > 1 => \/ IsAttempt(m) \/ IsResult(m) \/ IsRound(m)
                    \/ (m.type = "warning" /\ Len(payload.items) = 0)
        /\ IsAttempt(m) =>
              /\ i > 1
              /\ m.attempt =
                    1 + Cardinality({j \in 1..(i - 1) : IsAttempt(sent[j])})
              /\ IF m.attempt = 1 THEN i = 2 ELSE IsRetrying(sent[i - 1])
        /\ IsResult(m) =>
              /\ i > 1
              /\ IsAttempt(sent[i - 1]) \/ IsResult(sent[i - 1])
        /\ (IsRetrying(m) \/ IsAllHealthy(m)) =>
              /\ i > 2
              /\ IsResult(sent[i - 1])
              /\ LET a == LastAttemptBefore(i) IN
                 /\ i - a - 1 = sent[a].checking
                 /\ Cardinality({sent[j].service : j \in (a + 1)..(i - 1)})
                       = sent[a].checking
        /\ IsTimeout(m) => (i > 1 /\ IsRetrying(sent[i - 1]))
        /\ (IsAllHealthy(m) \/ IsTimeout(m) \/ m.message = "Health check skipped")
              => i = Len(sent)

HC_MessageOrder_Witness ==
    /\ Len(sent) = 8
    /\ IsAttempt(sent[2]) /\ sent[2].attempt = 1
    /\ IsResult(sent[3]) /\ sent[3].service = "service_b"
    /\ IsResult(sent[4]) /\ sent[4].service = "service_a"
    /\ IsRetrying(sent[5])
    /\ IsAttempt(sent[6]) /\ sent[6].attempt = 2
    /\ IsResult(sent[7])
    /\ IsAllHealthy(sent[8])

(***************************************************************************)
(* C7: a failing probe (a status other than 200, a request error, any      *)
(* other exception of client.get) does not end polling.  Its completion    *)
(* leaves the coordinator where it is, its service stays pending, and on a *)
(* usable channel the attempt ends with the retry notice and the delay,    *)
(* after which the next check, unless it finds the deadline exceeded,      *)
(* starts a probe for every pending service.  The poller raises only when  *)
(* the channel is unusable, and it returns with services pending only      *)
(* after the deadline check has sent the timeout error.                    *)
(***************************************************************************)
HC_FailingProbeRetries ==
    /\ [](/\ pc = "raised" => ~wsOpen
          /\ \A n \in ServiceNames :
                (probes[n].st = "done" /\ Failing(probes[n].outcome)) =>
                    n \in SeqToSet(pending)
          /\ pc = "sleeping" =>
                /\ Len(pending) > 0
                /\ IsRetrying(LastSent)
                /\ LastSent.pending = Len(pending)
          /\ (pc = "returned" /\ PollingEntered /\ Len(pending) > 0) =>
                /\ IsTimeout(LastSent)
                /\ now - start_time > HEALTH_CHECK_TIMEOUT_SECONDS)
    /\ [][ /\ (\E n \in ServiceNames :
                  probes[n].st = "running" /\ probes'[n].st # "running") =>
                 (pc' = pc /\ pending' = pending)
           /\ (pc = "gather" /\ pc' # "gather" /\ wsOpen
                 /\ \E i \in 1..Len(tasks) : Failing(probes[tasks[i]].outcome)) =>
                 pc' = "sleeping"
           /\ (pc = "sleeping" /\ pc' # "sleeping") =>
                 /\ pc' = "loop"
                 /\ now' >= now + HEALTH_CHECK_ATTEMPT_DELAY_SECONDS
                 /\ pending' = pending
           /\ (pc = "loop" /\ pc' # "loop" /\ wsOpen
                 /\ ~(now - start_time > HEALTH_CHECK_TIMEOUT_SECONDS)) =>
                 /\ pc' = "gather"
                 /\ attempt' = attempt + 1
                 /\ \A n \in SeqToSet(pending) : probes'[n].st = "running"
         ]_vars

HC_FailingProbeRetries_Witness ==
    /\ pc = "gather"
    /\ attempt = 2
    /\ wsOpen
    /\ pending = <<"service_a", "service_b">>
    /\ probes["service_a"].st = "running"
    /\ probes["service_b"].st = "running"
    /\ \E i \in 1..Len(sent) : IsResult(sent[i]) /\ sent[i].type = "error"
    /\ \E i \in 1..Len(sent) :
          IsResult(sent[i]) /\ sent[i].message = "FAILED Request Error"

(***************************************************************************)
(* C8: when a send of the coordinator fails while the loop is running, or  *)
(* a probe task has raised, the coordinator's next step ends the poller by *)
(* raising the error of the send: it delivers nothing and starts no probe. *)
(* The poller raises only with that error, after closing the client, and   *)
(* once it has raised it starts no attempt and no probe and sends nothing. *)
(***************************************************************************)
HC_SendFailurePropagates ==
    /\ [](/\ pc = "raised" => (exc = "send_failed" /\ ~wsOpen /\ ~clientOpen)
          /\ pc # "raised" => exc = "none"
          /\ (pc = "returned" /\ PollingEntered) =>
                /\ \A n \in ServiceNames : probes[n].st \in {"idle", "done"}
                /\ TimeoutSent \/ AllHealthySent)
    /\ [][ /\ (pc \in {"loop", "gather"} /\ pc' # pc
                 /\ (~wsOpen \/ SomeTaskRaised(tasks, probes))) =>
                 /\ pc' = "raised"
                 /\ exc' = "send_failed"
                 /\ sent' = sent
                 /\ calls' = calls
           /\ pc = "raised" =>
                 UNCHANGED <<pc, exc, sent, calls, attempt, pending>>
         ]_vars

HC_SendFailurePropagates_Witness ==
    /\ pc = "raised"
    /\ exc = "send_failed"
    /\ attempt = 2
    /\ SomeTaskRaised(tasks, probes)
    /\ Len(pending) > 0

\* a dict whose keys and values are all strings
StringMapping(p) ==
    /\ p.kind = "dict"
    /\ \A i \in 1..Len(p.items) :
          p.items[i][1].t = "str" /\ p.items[i][2].t = "str"

(***************************************************************************)
(* C9: for a payload that is not a dict whose keys and values are all      *)
(* strings, the poller delivers nothing but one error message, the one     *)
(* about the payload format, and ends: no start notice, no attempt, no     *)
(* probe.                                                                  *)
(***************************************************************************)
HC_InvalidPayload ==
    ~StringMapping(payload) =>
        /\ pc \in {"validate", "returned", "raised"}
        /\ calls = <<>>
        /\ attempt = 0
        /\ pending = <<>>
        /\ \A n \in ServiceNames : probes[n].st = "idle"
        /\ Len(sent) <= 1
        /\ \A i \in 1..Len(sent) :
              sent[i] = [type |-> "error", message |-> "Invalid payload format"]
        /\ pc = "returned" => Len(sent) = 1
        /\ pc = "validate" => Len(sent) = 0

HC_InvalidPayload_Witness ==
    /\ payload.kind = "dict"
    /\ Len(payload.items) = 2
    /\ ~StringMapping(payload)
    /\ pc = "returned"
    /\ Len(sent) = 1
    /\ sent[1].type = "error"

(***************************************************************************)
(* C10: for an empty dict the poller starts no probe and delivers the      *)
(* start notice and then the skipped warning, two messages in all and none *)
(* of type error, and returns.                                             *)
(***************************************************************************)
HC_EmptyPayload ==
    (payload.kind = "dict" /\ Len(payload.items) = 0) =>
        /\ pc \in {"validate", "started", "returned", "raised"}
        /\ calls = <<>>
        /\ attempt = 0
        /\ \A n \in ServiceNames : probes[n].st = "idle"
        /\ Len(sent) <= 2
        /\ \A i \in 1..Len(sent) : sent[i].type # "error"
        /\ Len(sent) >= 1 =>
              sent[1] = [type |-> "info", message |-> "Starting health checks"]
        /\ Len(sent) = 2 =>
              sent[2] = [type |-> "warning", message |-> "Health check skipped"]
        /\ pc = "returned" <=> Len(sent) = 2

HC_EmptyPayload_Witness ==
    /\ payload.kind = "dict"
    /\ Len(payload.items) = 0
    /\ pc = "returned"
    /\ Len(sent) = 2
    /\ sent[2].type = "warning"

(***************************************************************************)
(* Part 2: the subprocess streamer of core/utils.py and the deployment     *)
(* flows of services/deployment_manager.py.                                *)
(*                                                                         *)
(* A line of output is the sequence of its bytes. The bytes are taken from *)
(* one representative of each class the cleaning tells apart: ESC, "[",    *)
(* a CSI parameter byte ("0"), the space (white space and a CSI            *)
(* intermediate byte), an upper-case letter (second byte of a two-byte     *)
(* escape and a CSI final byte), a lower-case letter (a CSI final byte     *)
(* only), the newline, and a byte that is not valid UTF-8.                 *)
(***************************************************************************)
\* the longest line body (without its newline) of the exhaustive line set
MaxLineLen == 4
\* the most lines of a sampled output
MaxLines == 2

ESC == "ESC"
BAD == "BAD"
REPL == "U+FFFD"
NL == "\n"

BodyBytes == {ESC, "[", "0", " ", "M", "m", BAD}

\* str.strip() without arguments removes white space
IsSpace(c) == c \in {" ", NL}

\* ANSI_ESCAPE_PATTERN: \x1B(?:[@-Z\\-_]|\[[0-?]*[ -/]*[@-~])
FeBytes == {"M"}
ParamBytes == {"0"}
IntermediateBytes == {" "}
FinalBytes == {"M", "m", "["}

\* bytes.decode(errors='replace'): a byte that cannot be decoded becomes
\* U+FFFD, the others are kept
Decode(line) ==
    [i \in 1..Len(line) |-> IF line[i] = BAD THEN REPL ELSE line[i]]

RECURSIVE LStrip(_)
LStrip(s) ==
    IF s # <<>> /\ IsSpace(Head(s)) THEN LStrip(Tail(s)) ELSE s

RECURSIVE RStrip(_)
RStrip(s) ==
    IF s # <<>> /\ IsSpace(s[Len(s)])
    THEN RStrip(SubSeq(s, 1, Len(s) - 1))
    ELSE s

\* fault: only the end of the line is stripped
Strip_TrailingOnly(s) == RStrip(s)

\* str.strip(): white space is removed at both ends
Strip(s) == RStrip(LStrip(s))

\* the first index from i on whose character is not of the class
RECURSIVE SkipClass(_, _, _)
SkipClass(s, i, class) ==
    IF i <= Len(s) /\ s[i] \in class THEN SkipClass(s, i + 1, class) ELSE i

\* the length of the match of the pattern that starts at index i, 0 if none.
\* The three classes of a CSI sequence are disjoint, so the greedy match is
\* the only one.
MatchLen(s, i) ==
    IF s[i] # ESC \/ i = Len(s) THEN 0
    ELSE IF s[i + 1] \in FeBytes THEN 2
    ELSE IF s[i + 1] # "[" THEN 0
    ELSE LET j == SkipClass(s, i + 2, ParamBytes)
             k == SkipClass(s, j, IntermediateBytes)
         IN  IF k <= Len(s) /\ s[k] \in FinalBytes THEN k - i + 1 ELSE 0

\* pattern.sub('', s) from index i on: one pass from the left, a match is
\* dropped and the scan goes on behind it
RECURSIVE SubFrom(_, _)
SubFrom(s, i) ==
    IF i > Len(s) THEN <<>>
    ELSE LET n == MatchLen(s, i)
         IN  IF n > 0 THEN SubFrom(s, i + n)
             ELSE <<s[i]>> \o SubFrom(s, i + 1)

AnsiSub(s) == SubFrom(s, 1)

\* fault: the escape sequences are removed before the line is stripped
CleanLine_SubFirst(line) == Strip(AnsiSub(Decode(line)))

\* lines 135-137: decoded_line and cleaned_line of one line
CleanLine(line) == AnsiSub(Strip(Decode(line)))

\* all lines readline() can return for a body of at most n bytes: the body
\* and its newline, or a last line that has no newline
RECURSIVE Bodies(_)
Bodies(n) ==
    IF n = 0 THEN {<<>>}
    ELSE LET prev == Bodies(n - 1)
         IN  prev \cup {Append(b, c) : b \in prev, c \in BodyBytes}

AllLines ==
    {Append(b, NL) : b \in Bodies(MaxLineLen)}
        \cup (Bodies(MaxLineLen) \ {<<>>})

\* the lines of the sampled outputs: text, coloured text, escape sequences
\* only, a blank line, an indented line and a last line without newline
SampleLines ==
    { <<"m", NL>>,
      <<ESC, "[", "0", "m", "M", ESC, "[", "m", NL>>,
      <<ESC, "[", "0", "m", ESC, "[", "m", NL>>,
      <<NL>>,
      <<" ", "0", NL>>,
      <<"m", "M">> }

RECURSIVE SeqsUpTo(_, _)
SeqsUpTo(S, n) ==
    IF n = 0 THEN {<<>>}
    ELSE LET prev == SeqsUpTo(S, n - 1)
         IN  prev \cup {Append(q, x) : q \in prev, x \in S}

\* readline() returns a line without newline only at the end of the stream
WellFormed(o) == \A i \in 1..(Len(o) - 1) : o[i][Len(o[i])] = NL

SampleOutputs == {o \in SeqsUpTo(SampleLines, MaxLines) : WellFormed(o)}

\* decoded_line and cleaned_line of the sampled lines, computed once
CleanedText == [line \in SampleLines |-> CleanLine(line)]

\* lines 135-137 for the line that was read
Cleaned(line) ==
    IF line \in SampleLines THEN CleanedText[line] ELSE CleanLine(line)

(***************************************************************************)
(* Messages of the streamer and of the deployment flows. A message text    *)
(* built by an f-string is the sequence of its pieces; str(e) of an        *)
(* exception is the name of its class.                                     *)
(***************************************************************************)
StreamName(f) ==
    CASE f = "infra" -> "infra_deploy_log"
      [] f = "app" -> "app_deploy_log"
      [] OTHER -> "test_stream"

MsgLog(stream_name, cleaned_line) ==
    [type |-> "log", action |-> stream_name, message |-> cleaned_line]

MsgInfraGenerating ==
    [type |-> "info", message |-> <<"Generating Terraform configurations...">>]
MsgInfraGenerated ==
    [type |-> "info",
     message |-> <<"Terraform configurations generated successfully.">>]
MsgInfraGenerateFailed(e) ==
    [type |-> "error",
     message |-> <<"Failed to generate Terraform configurations: ", e>>]
MsgInfraExecuting ==
    [type |-> "info",
     message |-> <<"Executing infrastructure deployment script...">>]
\* fault: the success carries the content unwrapped by one level
MsgInfraSuccess_Unwrapped(outputs_data) ==
    [type |-> "success", message |-> outputs_data.output_key]
MsgInfraSuccess(outputs_data) == [type |-> "success", message |-> outputs_data]
MsgOutputsNotFound ==
    [type |-> "error",
     message |-> <<"Error: outputs.json not found at ", "outputs_json_path">>]
MsgOutputsUndecodable ==
    [type |-> "error",
     message |-> <<"Error: Could not decode outputs.json at ",
                   "outputs_json_path">>]
\* fault: the error does not carry the exit code
MsgInfraScriptFailed_NoCode(return_code) ==
    [type |-> "error", message |-> <<"Script failed">>]
MsgInfraScriptFailed(return_code) ==
    [type |-> "error",
     message |-> <<"Script failed with exit code: ", ToString(return_code)>>]
MsgInfraScriptNotFound ==
    [type |-> "error",
     message |-> <<"Infrastructure deployment script not found at: ",
                   "INFRA_SCRIPT_PATH">>]
MsgInfraException(e) ==
    [type |-> "error",
     message |-> <<"An error occurred during infrastructure deployment: ", e>>]

MsgAppGenerating ==
    [type |-> "info",
     message |-> <<"Generating application configurations...">>]
MsgAppGenerated ==
    [type |-> "info",
     message |-> <<"Application configurations generated successfully.">>]
MsgAppExecuting ==
    [type |-> "info",
     message |-> <<"Executing application deployment script...">>]
MsgAppSuccess_NoServices(service_urls, services, log_exploer_urls) ==
    [type |-> "success", action |-> "app_deploy_complete",
     message |-> <<"Application deployment successful!">>,
     data |-> [service_urls |-> service_urls,
               services_deployed |-> <<>>,
               logs_explorer_urls |-> log_exploer_urls]]
MsgAppSuccess(service_urls, services, log_exploer_urls) ==
    [type |-> "success", action |-> "app_deploy_complete",
     message |-> <<"Application deployment successful!">>,
     data |-> [service_urls |-> service_urls,
               services_deployed |-> services,
               logs_explorer_urls |-> log_exploer_urls]]
MsgAppScriptFailed(return_code) ==
    [type |-> "error", action |-> "app_deploy_failed",
     message |-> <<"Application deployment script failed with exit code: ",
                   ToString(return_code),
                   ". Check logs above for details.">>]
MsgAppConfigError(e) ==
    [type |-> "error", action |-> "app_config_error",
     message |-> <<"Error generating application configs: Required outputs.json not found or script not found: ",
                   e, ". Ensure infrastructure is deployed.">>]
MsgAppException(e) ==
    [type |-> "error", action |-> "app_deploy_exception",
     message |-> <<"An unexpected error occurred during app deployment: ", e>>]

(***************************************************************************)
(* Exceptions and the handlers they reach.                                 *)
(***************************************************************************)
\* a send on the unusable channel raises; the exception leaves the coroutine
\* when no handler is around it or when the send of the handler raises too
LeaveByException(e) ==
    /\ pc' = "raised"
    /\ exc' = e
    /\ UNCHANGED sent

\* fault: the handlers of the main try block raise the exception again
InfraExcept_Reraise(e) == LeaveByException(e)

\* deployment_manager.py lines 96-103: the handlers of the main try block of
\* run_infra_deployment
InfraExcept(e) ==
    IF wsOpen
    THEN /\ sent' = Append(sent, IF e = "FileNotFoundError"
                                 THEN MsgInfraScriptNotFound
                                 ELSE MsgInfraException(e))
         /\ pc' = "returned"
         /\ UNCHANGED exc
    ELSE LeaveByException("send_failed")

\* fault: the handlers of run_app_deployment raise the exception again
AppExcept_Reraise(e) == LeaveByException(e)

\* fault: every exception is reported by the second handler
AppErrorMessage_Generic(e) == MsgAppException(e)

\* deployment_manager.py lines 201-208: the message of the handler that
\* takes the exception, "except FileNotFoundError" before "except Exception"
AppErrorMessage(e) ==
    IF e = "FileNotFoundError" THEN MsgAppConfigError(e)
    ELSE MsgAppException(e)

\* fault: the flow goes on behind the handler
AppExcept_GoesOn(e) ==
    IF wsOpen
    THEN /\ sent' = Append(sent, AppErrorMessage(e))
         /\ pc' = "prepare"
         /\ UNCHANGED exc
    ELSE LeaveByException("send_failed")

\* deployment_manager.py lines 201-208: the handlers of the try block of
\* run_app_deployment
AppExcept(e) ==
    IF wsOpen
    THEN /\ sent' = Append(sent, AppErrorMessage(e))
         /\ pc' = "returned"
         /\ UNCHANGED exc
    ELSE LeaveByException("send_failed")

\* an exception leaves stream_subprocess_output: it reaches the handlers of
\* the flow that called it
StreamRaise(e) ==
    CASE flow = "infra" -> InfraExcept(e)
      [] flow = "app" -> AppExcept(e)
      [] OTHER -> LeaveByException(e)

\* the position of the caller behind the call of the streamer
AfterStream == IF flow \in {"infra", "app"} THEN "wait" ELSE "returned"

(***************************************************************************)
(* stream_subprocess_output (core/utils.py lines 125-141): one action per  *)
(* read of process.stdout.                                                 *)
(***************************************************************************)
\* line 130: the process has no output stream
StreamNoStdout ==
    /\ pc = "stream"
    /\ ~process.stdout
    /\ pc' = AfterStream
    /\ UNCHANGED <<sent, calls, wsOpen, exc, flow, process, nread, logged>>
    /\ UNCHANGED pollerVars
    /\ UNCHANGED appVars

\* line 132: what readline() returns: the next line, b"" behind the last
NextLine ==
    IF nread < Len(process.output) THEN process.output[nread + 1] ELSE <<>>

\* fault: a line that is blank once stripped is taken for the end
EndOfStream_BlankLine(line) == Strip(Decode(line)) = <<>>

\* line 133: "if not line"
EndOfStream(line) == line = <<>>

\* fault: every line is forwarded
ShouldForward_Always(cleaned_line) == TRUE

\* line 138: "if cleaned_line"
ShouldForward(cleaned_line) == cleaned_line # <<>>

\* lines 132-141: readline() returns a line
StreamLine ==
    /\ pc = "stream"
    /\ process.stdout
    /\ ~EndOfStream(NextLine)
    /\ nread' = nread + 1
    /\ LET cleaned_line == Cleaned(NextLine)
       IN  IF ShouldForward(cleaned_line)
           THEN IF wsOpen
                THEN /\ sent' = Append(sent, MsgLog(StreamName(flow),
                                                    cleaned_line))
                     /\ logged' = Append(logged, cleaned_line)
                     /\ UNCHANGED <<pc, exc>>
                ELSE /\ StreamRaise("send_failed")
                     /\ UNCHANGED logged
           ELSE UNCHANGED <<pc, sent, logged, exc>>
    /\ UNCHANGED <<calls, wsOpen, flow, process>>
    /\ UNCHANGED pollerVars
    /\ UNCHANGED appVars

\* fault: the end of the stream is taken only once the process has exited
StreamEof_WaitsForExit ==
    /\ pc = "stream"
    /\ process.stdout
    /\ process.st = "exited"
    /\ EndOfStream(NextLine)
    /\ nread' = nread + 1
    /\ pc' = AfterStream
    /\ UNCHANGED <<sent, calls, wsOpen, exc, flow, process, logged>>
    /\ UNCHANGED pollerVars
    /\ UNCHANGED appVars

\* lines 132-134: readline() returns b"": the stream is drained
StreamEof ==
    /\ pc = "stream"
    /\ process.stdout
    /\ EndOfStream(NextLine)
    /\ nread' = nread + 1
    /\ pc' = AfterStream
    /\ UNCHANGED <<sent, calls, wsOpen, exc, flow, process, logged>>
    /\ UNCHANGED pollerVars
    /\ UNCHANGED appVars

\* line 132: readline() raises (a line longer than the limit of the reader)
ReadlineRaises ==
    /\ pc = "stream"
    /\ process.stdout
    /\ nread < Len(process.output)
    /\ nread' = nread + 1
    /\ StreamRaise("ValueError")
    /\ UNCHANGED <<calls, wsOpen, flow, process, logged>>
    /\ UNCHANGED pollerVars
    /\ UNCHANGED appVars

\* the exit codes of the child
ExitCodes == {0, 1, 2}

\* the child exits; what it has written stays readable
ProcessExits ==
    /\ process.st = "running"
    /\ pc \notin {"returned", "raised"}
    /\ \E return_code \in ExitCodes :
          process' = [st |-> "exited", stdout |-> process.stdout,
                      output |-> process.output, artifact |-> process.artifact,
                      returncode |-> return_code]
    /\ UNCHANGED <<pc, sent, calls, wsOpen, exc, flow, nread, logged>>
    /\ UNCHANGED pollerVars
    /\ UNCHANGED appVars

RunningProcess(has_stdout, o, a) ==
    [st |-> "running", stdout |-> has_stdout, output |-> o, artifact |-> a]

\* the state of the poller in the runs of the streamer and of the flows
PollerIdle ==
    /\ payload = DictOf(<<>>)
    /\ pending = <<>>
    /\ attempt = 0
    /\ start_time = 0
    /\ now = 0
    /\ tasks = <<>>
    /\ probes = [n \in ServiceNames |-> IdleProbe]
    /\ clientOpen = FALSE

\* the streamer is called on a process whose output is one of the sampled
\* outputs, or that has no output stream
StreamInit ==
    /\ PollerIdle
    /\ AppIdle
    /\ flow = "stream"
    /\ pc = "stream"
    /\ \E has_stdout \in BOOLEAN :
         \E o \in (IF has_stdout THEN SampleOutputs ELSE {<<>>}) :
            process = RunningProcess(has_stdout, o, NoArtifact)
    /\ nread = 0
    /\ logged = <<>>
    /\ sent = <<>>
    /\ calls = <<>>
    /\ wsOpen = TRUE
    /\ exc = "none"

\* the streamer is called on a process that writes one line, any line
LineInit ==
    /\ PollerIdle
    /\ AppIdle
    /\ flow = "stream"
    /\ pc = "stream"
    /\ \E line \in AllLines : process = RunningProcess(TRUE, <<line>>, NoArtifact)
    /\ nread = 0
    /\ logged = <<>>
    /\ sent = <<>>
    /\ calls = <<>>
    /\ wsOpen = TRUE
    /\ exc = "none"

StreamStep ==
    \/ StreamNoStdout
    \/ StreamLine
    \/ StreamEof
    \/ ReadlineRaises

StreamNext ==
    \/ StreamNoStdout
    \/ StreamLine
    \/ StreamEof
    \/ ReadlineRaises
    \/ ProcessExits
    \/ ChannelBreaks

\* a read of the stream of a finite output returns: the loop is not starved
StreamSpec == StreamInit /\ [][StreamNext]_vars /\ WF_vars(StreamStep)

LineNext ==
    \/ StreamLine
    \/ StreamEof

LineSpec == LineInit /\ [][LineNext]_vars

(***************************************************************************)
(* Reading the run of the streamer.                                        *)
(***************************************************************************)
IsLog(m) == m.type = "log"
LogMessages == SelectSeq(sent, IsLog)
ForwardedTexts == [i \in 1..Len(LogMessages) |-> LogMessages[i].message]

\* the cleaned texts of the lines, in order, without the empty ones
NonEmptyCleaned(lines) ==
    LET cleaned == [i \in 1..Len(lines) |-> CleanLine(lines[i])]
    IN  SelectSeq(cleaned, LAMBDA c : c # <<>>)

FirstLines(n) ==
    SubSeq(process.output, 1,
           IF n < Len(process.output) THEN n ELSE Len(process.output))

\* the read that found the end of the stream has returned
EofRead == process.stdout /\ nread = Len(process.output) + 1

(* C11: the log messages forwarded are the lines whose cleaned text is not
   empty, in the order of the output, each once: while the streamer runs
   they are those of the lines read, when it returns those of the whole
   output, and when a read or a send raises those of the lines before it.
   What is logged is what is forwarded, so a line whose cleaned text is
   empty is neither forwarded nor logged. *)
Stream_ForwardsInOrder ==
    /\ logged = ForwardedTexts
    /\ \A i \in 1..Len(LogMessages) :
          LogMessages[i].action = StreamName(flow)
    /\ pc = "stream" => ForwardedTexts = NonEmptyCleaned(FirstLines(nread))
    /\ pc = "returned" => ForwardedTexts = NonEmptyCleaned(process.output)
    /\ pc = "raised" => ForwardedTexts = NonEmptyCleaned(FirstLines(nread - 1))

\* the streamer has returned from an output of two lines, the first one
\* suppressed and the second one forwarded
Stream_ForwardsInOrder_Witness ==
    /\ pc = "returned"
    /\ Len(process.output) = 2
    /\ CleanLine(process.output[1]) = <<>>
    /\ ForwardedTexts = <<CleanLine(process.output[2])>>
    /\ logged = ForwardedTexts

(* C12: the streamer returns exactly when a read finds the end of the
   stream, or at once and without a message when the process has no output
   stream; a blank line does not end it (every line has been read when it
   returns); it ends for every finite output, whether or not the process
   has exited. *)
Stream_ReturnsAtEof ==
    /\ [](/\ pc = "returned" =>
                \/ EofRead
                \/ ~process.stdout /\ nread = 0 /\ sent = <<>> /\ logged = <<>>
          /\ EofRead => pc = "returned"
          /\ pc = "stream" => nread <= Len(process.output))
    /\ <>(pc # "stream")

\* the streamer has returned behind a blank line and a forwarded line while
\* the process still runs
Stream_ReturnsAtEof_Witness ==
    /\ pc = "returned"
    /\ process.st = "running"
    /\ Len(process.output) = 2
    /\ process.output[1] = <<NL>>
    /\ Len(ForwardedTexts) = 1

\* the streamer has returned at once from a process without output stream
Stream_NoStdout_Witness ==
    /\ pc = "returned"
    /\ ~process.stdout
    /\ sent = <<>>

\* the least and the greatest element of a non-empty set of numbers
Least(S) == CHOOSE x \in S : \A y \in S : x <= y
Greatest(S) == CHOOSE x \in S : \A y \in S : y <= x

\* the text without its trailing white space
WithoutTrailingSpace(s) ==
    LET idx == {i \in 1..Len(s) : ~IsSpace(s[i])}
    IN  IF idx = {} THEN <<>> ELSE SubSeq(s, 1, Greatest(idx))

\* the text without its leading and trailing white space
WithoutOuterSpace(s) ==
    LET idx == {i \in 1..Len(s) : ~IsSpace(s[i])}
    IN  IF idx = {} THEN <<>> ELSE SubSeq(s, Least(idx), Greatest(idx))

\* s[i..i+n-1] is an escape sequence: ESC and one byte of @-Z\-_, or ESC [,
\* parameter bytes, intermediate bytes and a final byte
IsEscapeAt(s, i, n) ==
    /\ i + n - 1 <= Len(s)
    /\ s[i] = ESC
    /\ \/ n = 2 /\ s[i + 1] \in FeBytes
       \/ /\ n >= 3
          /\ s[i + 1] = "["
          /\ s[i + n - 1] \in FinalBytes
          /\ \E j \in (i + 2)..(i + n - 1) :
                /\ \A k \in (i + 2)..(j - 1) : s[k] \in ParamBytes
                /\ \A k \in j..(i + n - 2) : s[k] \in IntermediateBytes

\* the indices of s that lie inside an escape sequence
InEscape(s) ==
    {k \in 1..Len(s) :
        \E i \in 1..k : \E n \in 2..Len(s) : IsEscapeAt(s, i, n) /\ k < i + n}

\* the text without the characters of its escape sequences
WithoutEscapes(s) ==
    LET keep == SelectSeq([i \in 1..Len(s) |-> i],
                          LAMBDA i : i \notin InEscape(s))
    IN  [j \in 1..Len(keep) |-> s[keep[j]]]

\* the line the streamer was given in the runs on one line
TheLine == process.output[1]

(* C13 as stated: the text of a forwarded message is the decoded line
   without its trailing white space and then without its escape
   sequences. *)
Stream_TextStripsTrailingOnly ==
    LogMessages # <<>> =>
        ForwardedTexts[1]
            = WithoutEscapes(WithoutTrailingSpace(Decode(TheLine)))

(* C13 as amended: the text of a forwarded message is the decoded line
   without its leading and trailing white space and then without its
   escape sequences; a line is forwarded exactly when that text is not
   empty. *)
Stream_TextStripsBothEnds ==
    LET text == WithoutEscapes(WithoutOuterSpace(Decode(TheLine)))
    IN  /\ LogMessages # <<>> => ForwardedTexts = <<text>>
        /\ nread >= 1 => (LogMessages # <<>> <=> text # <<>>)

\* a forwarded line that had white space at both ends, an escape sequence
\* and a byte that is not valid UTF-8
Stream_TextStripsBothEnds_Witness ==
    /\ TheLine = <<" ", ESC, "M", BAD, NL>>
    /\ ForwardedTexts = << <<REPL>> >>

(***************************************************************************)
(* run_infra_deployment (services/deployment_manager.py lines 28-103):     *)
(* one action per await that the flow can be suspended at. calls records   *)
(* what the flow has called, in order: [op, result].                       *)
(***************************************************************************)
Call(op, result) == [op |-> op, result |-> result]

\* the content outputs.json can have (test_run_infra_deployment_success)
OutputsContents ==
    { [output_key |-> [value |-> "output_value"]],
      [output_key |-> [value |-> "other_value"]] }

\* outputs.json when the script has ended: readable JSON, missing, not JSON,
\* or not readable for another reason (a directory, no permission)
Artifacts ==
    {[state |-> "ok", data |-> d] : d \in OutputsContents}
        \cup {[state |-> st, data |-> NoArtifact.data] :
                 st \in {"missing", "undecodable", "unreadable"}}

\* a send that no try block is around (lines 35, 47, 132)
SendOrLeave(m, next) ==
    IF wsOpen
    THEN /\ sent' = Append(sent, m)
         /\ pc' = next
         /\ UNCHANGED exc
    ELSE LeaveByException("send_failed")

\* lines 33-35
InfraBegin ==
    /\ flow = "infra"
    /\ pc = "start"
    /\ SendOrLeave(MsgInfraGenerating, "generate")
    /\ UNCHANGED <<calls, wsOpen, flow, process, nread, logged>>
    /\ UNCHANGED pollerVars
    /\ UNCHANGED appVars

\* fault: the flow goes on after the failure of the generation
InfraGenerateExcept_GoesOn(e) ==
    IF wsOpen
    THEN /\ sent' = Append(sent, MsgInfraGenerateFailed(e))
         /\ pc' = "announce"
         /\ UNCHANGED exc
    ELSE LeaveByException("send_failed")

\* lines 41-45: the handler of the first try block
InfraGenerateExcept(e) ==
    IF wsOpen
    THEN /\ sent' = Append(sent, MsgInfraGenerateFailed(e))
         /\ pc' = "returned"
         /\ UNCHANGED exc
    ELSE LeaveByException("send_failed")

\* lines 36-45: tf_config.generate_config and its notice, inside the first
\* try block
InfraGenerate ==
    /\ flow = "infra"
    /\ pc = "generate"
    /\ \E result \in {"ok", "Exception"} :
          /\ calls' = Append(calls, Call("generate_config", result))
          /\ IF result # "ok" THEN InfraGenerateExcept(result)
             ELSE IF wsOpen
                  THEN /\ sent' = Append(sent, MsgInfraGenerated)
                       /\ pc' = "announce"
                       /\ UNCHANGED exc
                  ELSE InfraGenerateExcept("send_failed")
    /\ UNCHANGED <<wsOpen, flow, process, nread, logged>>
    /\ UNCHANGED pollerVars
    /\ UNCHANGED appVars

\* line 47
InfraAnnounce ==
    /\ flow = "infra"
    /\ pc = "announce"
    /\ SendOrLeave(MsgInfraExecuting, "launch")
    /\ UNCHANGED <<calls, wsOpen, flow, process, nread, logged>>
    /\ UNCHANGED pollerVars
    /\ UNCHANGED appVars

\* what asyncio.create_subprocess_exec can do: start the process, or raise
\* (the shell or the working directory is missing or may not be used, or
\* anything else)
LaunchResults == {"ok", "FileNotFoundError", "PermissionError", "Exception"}

\* lines 56-65: the script is launched and the streamer is called
InfraLaunch ==
    /\ flow = "infra"
    /\ pc = "launch"
    /\ \E result \in LaunchResults :
          IF result = "ok"
          THEN /\ \E o \in SampleOutputs : \E a \in Artifacts :
                     process' = RunningProcess(TRUE, o, a)
               /\ calls' = calls \o <<Call("create_subprocess_exec", "ok"),
                                      Call("stream_subprocess_output", "called")>>
               /\ pc' = "stream"
               /\ UNCHANGED <<sent, exc>>
          ELSE /\ calls' = Append(calls, Call("create_subprocess_exec", result))
               /\ InfraExcept(result)
               /\ UNCHANGED process
    /\ UNCHANGED <<wsOpen, flow, nread, logged>>
    /\ UNCHANGED pollerVars
    /\ UNCHANGED appVars

\* fault: a script that ended with code 1 is taken for a success
ScriptSucceeded_UpToOne(return_code) == return_code <= 1

\* line 70: "if return_code == 0"
ScriptSucceeded(return_code) == return_code = 0

\* lines 72-74: what open and json.load do with the artifact, as calls
ReadCalls(artifact) ==
    CASE artifact.state = "ok" ->
            <<Call("open", "ok"), Call("json.load", "ok")>>
      [] artifact.state = "missing" ->
            <<Call("open", "FileNotFoundError")>>
      [] artifact.state = "undecodable" ->
            <<Call("open", "ok"), Call("json.load", "JSONDecodeError")>>
      [] OTHER ->
            <<Call("open", "PermissionError")>>

\* fault: every failure of the read is reported by the inner handlers
InnerHandled_All(artifact) == artifact.state # "ok"

\* lines 82-89: the inner handlers take FileNotFoundError and
\* json.JSONDecodeError only
InnerHandled(artifact) == artifact.state \in {"missing", "undecodable"}

\* lines 83, 87: the message of the inner handler
MsgOutputsUnreadable(artifact) ==
    IF artifact.state = "missing" THEN MsgOutputsNotFound
    ELSE MsgOutputsUndecodable

\* lines 67-94: process.wait() returns, and the result of the script is
\* reported
InfraWait ==
    /\ flow = "infra"
    /\ pc = "wait"
    /\ process.st = "exited"
    /\ LET return_code == process.returncode
           artifact == process.artifact
       IN  IF ScriptSucceeded(return_code)
           THEN /\ calls' = Append(calls, Call("wait", "returned"))
                               \o ReadCalls(artifact)
                /\ IF ~wsOpen THEN InfraExcept("send_failed")
                   ELSE IF artifact.state = "ok"
                   THEN /\ sent' = Append(sent, MsgInfraSuccess(artifact.data))
                        /\ pc' = "returned"
                        /\ UNCHANGED exc
                   ELSE IF InnerHandled(artifact)
                   THEN /\ sent' = Append(sent, MsgOutputsUnreadable(artifact))
                        /\ pc' = "returned"
                        /\ UNCHANGED exc
                   ELSE InfraExcept("PermissionError")
           ELSE /\ calls' = Append(calls, Call("wait", "returned"))
                /\ IF wsOpen
                   THEN /\ sent' = Append(sent, MsgInfraScriptFailed(return_code))
                        /\ pc' = "returned"
                        /\ UNCHANGED exc
                   ELSE InfraExcept("send_failed")
    /\ UNCHANGED <<wsOpen, flow, process, nread, logged>>
    /\ UNCHANGED pollerVars
    /\ UNCHANGED appVars

(***************************************************************************)
(* Part 3. The application flow in detail: the request, the component      *)
(* selector, the configuration generator and the environment of the        *)
(* script (config/app_config_generator.py, services/deployment_manager.py  *)
(* lines 105-208).                                                         *)
(***************************************************************************)
\* the entries a dictionary of the request (domain_names, image_urls) has at
\* most
MaxEntries == 2

(***************************************************************************)
(* Python strings: comparison, upper(), replace(), join().                 *)
(***************************************************************************)
\* the characters in use, in the order of their code points
CodeOrder ==
    ",-./0123456789:ABCDEFGHIJKLMNOPQRSTUVWXYZ_abcdefghijklmnopqrstuvwxyz"
LowerCase == "abcdefghijklmnopqrstuvwxyz"
UpperCase == "ABCDEFGHIJKLMNOPQRSTUVWXYZ"

CharAt(s, i) == SubSeq(s, i, i)
Chars(s) == {CharAt(s, i) : i \in 1..Len(s)}

\* ord(c), up to the order of the characters in use
OrdTable ==
    [c \in Chars(CodeOrder) |->
        CHOOSE i \in 1..Len(CodeOrder) : CharAt(CodeOrder, i) = c]
Ord(c) == OrdTable[c]

\* a < b for two str that are equal before position i: the first differing
\* character decides, a proper prefix is smaller
RECURSIVE StrLessFrom(_, _, _)
StrLessFrom(a, b, i) ==
    IF i > Len(b) THEN FALSE
    ELSE IF i > Len(a) THEN TRUE
    ELSE IF CharAt(a, i) = CharAt(b, i) THEN StrLessFrom(a, b, i + 1)
    ELSE Ord(CharAt(a, i)) < Ord(CharAt(b, i))
StrLess(a, b) == StrLessFrom(a, b, 1)

\* the place of s[i] in sorted(s): behind the elements that are smaller and
\* behind the equal elements that stand before it
Place(s, i) ==
    1 + Cardinality({j \in 1..Len(s) :
                        StrLess(s[j], s[i]) \/ (s[j] = s[i] /\ j < i)})

\* sorted(s) for a list of str
Sorted(s) ==
    [p \in 1..Len(s) |-> s[CHOOSE i \in 1..Len(s) : Place(s, i) = p]]

\* fault: the elements of the set from the greatest down
SortedList_Descending(S) ==
    [p \in 1..Cardinality(S) |->
        CHOOSE x \in S : Cardinality({y \in S : StrLess(x, y)}) = p - 1]

\* sorted(list(a_set)) for a set of str: whatever the order of the list is,
\* the elements from the least up
SortedList(S) ==
    [p \in 1..Cardinality(S) |->
        CHOOSE x \in S : Cardinality({y \in S : StrLess(y, x)}) = p - 1]

\* c.upper() for one character
UpperTable ==
    [c \in Chars(LowerCase) |->
        CharAt(UpperCase,
               CHOOSE i \in 1..Len(LowerCase) : CharAt(LowerCase, i) = c)]
UpperChar(c) == IF c \in DOMAIN UpperTable THEN UpperTable[c] ELSE c

\* s.upper(), from position i on
RECURSIVE UpperFrom(_, _)
UpperFrom(s, i) ==
    IF i > Len(s) THEN "" ELSE UpperChar(CharAt(s, i)) \o UpperFrom(s, i + 1)
Upper(s) == UpperFrom(s, 1)

\* s.replace(old, new) for one character old, from position i on
RECURSIVE ReplaceFrom(_, _, _, _)
ReplaceFrom(s, old, new, i) ==
    IF i > Len(s) THEN ""
    ELSE (IF CharAt(s, i) = old THEN new ELSE CharAt(s, i))
             \o ReplaceFrom(s, old, new, i + 1)
Replace(s, old, new) == ReplaceFrom(s, old, new, 1)

\* sep.join(s)
RECURSIVE Join(_, _)
Join(sep, s) ==
    IF s = <<>> THEN ""
    ELSE IF Len(s) = 1 THEN s[1]
    ELSE s[1] \o sep \o Join(sep, Tail(s))

(***************************************************************************)
(* AppDeploymentRequest (core/models.py lines 70-87). components is a      *)
(* function from the keys it has to booleans; domain_names and image_urls  *)
(* are lists of entries with distinct keys, in the order of the            *)
(* dictionary.                                                             *)
(***************************************************************************)
ComponentKeys == {"bap", "bpp", "gateway", "registry"}
ComponentMaps == UNION {[S -> BOOLEAN] : S \in SUBSET ComponentKeys}

Entry(k, v) == [key |-> k, value |-> v]
Keys(d) == {d[i].key : i \in 1..Len(d)}
DistinctKeys(d) == \A i, j \in 1..Len(d) : d[i].key = d[j].key => i = j
Dicts(keys, values, n) ==
    {d \in SeqsUpTo({Entry(k, v) : k \in keys, v \in values}, n) :
        DistinctKeys(d)}

\* keys and values of domain_names and image_urls: the names of services,
\* and keys that differ from one in a hyphen or in the case of a letter
DomainKeys == {"adapter", "registry_admin", "registry-admin"}
DomainValues == {"a.com", "b.com"}
ImageKeys == {"adapter", "Adapter"}
ImageValues == {"repo/a:v1", "repo/b:v1"}
DomainDicts == Dicts(DomainKeys, DomainValues, MaxEntries)
ImageDicts == Dicts(ImageKeys, ImageValues, MaxEntries)

\* adapter_config: absent (None), or with enable_schema_validation, an
\* Optional[bool]
AdapterConfigs ==
    {[present |-> FALSE, enable_schema_validation |-> "None"]}
        \cup {[present |-> TRUE, enable_schema_validation |-> v] :
                 v \in {"True", "False", "None"}}

Request(c, d, i, a) ==
    [components |-> c, domain_names |-> d, image_urls |-> i,
     adapter_config |-> a]

\* test_run_app_deployment_config_generation_failure: bap alone, nothing
\* else
BapRequest ==
    Request([k \in {"bap"} |-> TRUE], <<>>, <<>>,
            [present |-> FALSE, enable_schema_validation |-> "None"])

\* the requests that are tried: every component map, every pair of
\* dictionaries, every adapter configuration
ComponentRequests ==
    {Request(c, <<Entry("adapter", "a.com")>>, <<>>, BapRequest.adapter_config) :
        c \in ComponentMaps}
DictRequests ==
    {Request(BapRequest.components, d, i, BapRequest.adapter_config) :
        d \in DomainDicts, i \in ImageDicts}
AdapterConfigRequests ==
    {Request(BapRequest.components, <<Entry("adapter", "a.com")>>,
             <<Entry("adapter", "repo/a:v1")>>, a) : a \in AdapterConfigs}
Requests == ComponentRequests \cup DictRequests \cup AdapterConfigRequests

(***************************************************************************)
(* The component selector (deployment_manager.py lines 105-123,            *)
(* app_config_generator.py lines 35-45).                                   *)
(***************************************************************************)
\* components.get(key, False)
Get(components, key) ==
    IF key \in DOMAIN components THEN components[key] ELSE FALSE

\* app_config_generator.py lines 35-39
should_deploy_adapter(components) ==
    Get(components, "bap") \/ Get(components, "bpp")

\* app_config_generator.py lines 41-45
should_deploy_subscriber(components) ==
    Get(components, "bap") \/ Get(components, "bpp")
        \/ Get(components, "gateway")

\* deployment_manager.py lines 110-120: the set services_to_deploy
ServicesToDeploy(components) ==
    (IF Get(components, "bap") \/ Get(components, "bpp")
     THEN {"adapter"} ELSE {})
      \cup (IF Get(components, "gateway") THEN {"gateway"} ELSE {})
      \cup (IF Get(components, "registry")
            THEN {"registry", "registry_admin"} ELSE {})
      \cup (IF should_deploy_subscriber(components)
            THEN {"subscriber"} ELSE {})

\* deployment_manager.py lines 105-123
get_services_to_deploy(app_deployment_request) ==
    SortedList(ServicesToDeploy(app_deployment_request.components))

(***************************************************************************)
(* get_deployment_environment_variables (app_config_generator.py lines     *)
(* 196-228). A dict of environment variables is a function from the names  *)
(* to the values.                                                          *)
(***************************************************************************)
\* d[k] = v
SetItem(d, k, v) == (k :> v) @@ d

\* fault: the hyphens of the key are kept
EnvVarName_KeepsHyphens(key, suffix) == Upper(key) \o suffix

\* lines 209, 215: f"{key.upper().replace('-', '_')}_DOMAIN"
EnvVarName(key, suffix) == Replace(Upper(key), "-", "_") \o suffix

\* lines 208-217: one assignment per entry, in the order of the dictionary
RECURSIVE SetEntries(_, _, _)
SetEntries(env_vars, entries, suffix) ==
    IF entries = <<>> THEN env_vars
    ELSE SetEntries(SetItem(env_vars,
                            EnvVarName(entries[1].key, suffix),
                            entries[1].value),
                    Tail(entries), suffix)

\* lines 220-225
SchemaValidation(adapter_config) ==
    IF adapter_config.present
          /\ adapter_config.enable_schema_validation = "True"
    THEN "true" ELSE "false"

\* lines 196-228
get_deployment_environment_variables(app_deployment_request, services_to_deploy) ==
    LET deploy == SetItem(<<>>, "DEPLOY_SERVICES",
                          Join(",", Sorted(services_to_deploy)))
        domains == SetEntries(deploy, app_deployment_request.domain_names,
                              "_DOMAIN")
        images == SetEntries(domains, app_deployment_request.image_urls,
                             "_IMAGE_URL")
    IN  SetItem(images, "ENABLE_SCHEMA_VALIDATION",
                SchemaValidation(app_deployment_request.adapter_config))

\* fault: a variable of the environment is not overridden
Overlay_AmbientWins(env, env_vars) ==
    [x \in DOMAIN env \cup DOMAIN env_vars |->
        IF x \in DOMAIN env THEN env[x] ELSE env_vars[x]]

\* lines 144-145: os.environ.copy() and update(env_vars_for_script)
Overlay(env, env_vars) ==
    [x \in DOMAIN env \cup DOMAIN env_vars |->
        IF x \in DOMAIN env_vars THEN env_vars[x] ELSE env[x]]

(***************************************************************************)
(* The files of the application flow. files.outputs is outputs.json (its   *)
(* state and parsed content), files.dirs the directories that exist,       *)
(* files.present the generated files that exist, with their content.       *)
(***************************************************************************)
ADAPTER_CONFIG_TEMPLATE_NAME == "adapter.yaml.j2"
REGISTRY_CONFIG_TEMPLATE_NAME == "registry.yaml.j2"
GATEWAY_CONFIG_TEMPLATE_NAME == "gateway.yaml.j2"
SUBSCRIBER_CONFIG_TEMPLATE_NAME == "subscriber.yaml.j2"
REGISTRY_ADMIN_CONFIG_TEMPLATE_NAME == "registry-admin.yaml.j2"
TFVARS_TEMPLATE_NAME == "p2.tfvars.j2"
GENERATED_CONFIGS_DIR == "generated_configs"
TF_VARS_OUTPUT_DIR == "terraform/phase2"

ConfigTemplates ==
    {ADAPTER_CONFIG_TEMPLATE_NAME, REGISTRY_CONFIG_TEMPLATE_NAME,
     GATEWAY_CONFIG_TEMPLATE_NAME, SUBSCRIBER_CONFIG_TEMPLATE_NAME,
     REGISTRY_ADMIN_CONFIG_TEMPLATE_NAME}

\* the files before a run: outputs.json in one of its states, nothing
\* generated yet
InitialFiles == {[NoFiles EXCEPT !.outputs = a] : a \in Artifacts}

\* s.replace(old, '') for a str old, from position i on
RECURSIVE RemoveFrom(_, _, _)
RemoveFrom(s, old, i) ==
    IF i > Len(s) THEN ""
    ELSE IF i + Len(old) - 1 <= Len(s)
               /\ SubSeq(s, i, i + Len(old) - 1) = old
         THEN RemoveFrom(s, old, i + Len(old))
         ELSE CharAt(s, i) \o RemoveFrom(s, old, i + 1)
Remove(s, old) == RemoveFrom(s, old, 1)

\* app_config_generator.py lines 120-121: output_filename and output_path
OutputPath(output_dir, template_j2_filename) ==
    output_dir \o "/" \o Remove(template_j2_filename, ".j2")

\* lines 54-55: the outputs unwrapped, {k: v.get("value")}
InfraOutputValues(raw_outputs) ==
    [k \in DOMAIN raw_outputs |-> raw_outputs[k].value]

\* lines 69-109: the context of the templates, as far as the request and the
\* outputs of the model go
prepare_template_context(app_deployment_request, infra_output_values) ==
    [infra |-> infra_output_values,
     domains |-> app_deployment_request.domain_names,
     deploy_bap |-> Get(app_deployment_request.components, "bap"),
     deploy_bpp |-> Get(app_deployment_request.components, "bpp"),
     enable_subscriber |->
         should_deploy_subscriber(app_deployment_request.components)]

\* core/utils.py lines 26-47: what a template renders to is a function of
\* the template and the context
RenderedContent(template_name, context) ==
    [template |-> template_name, context |-> context]

\* fault: the subscriber template goes with the adapter template
TemplatesToGenerate_SubscriberWithAdapter(components) ==
    (IF should_deploy_adapter(components)
     THEN {ADAPTER_CONFIG_TEMPLATE_NAME, SUBSCRIBER_CONFIG_TEMPLATE_NAME}
     ELSE {})
      \cup (IF Get(components, "gateway")
            THEN {GATEWAY_CONFIG_TEMPLATE_NAME} ELSE {})
      \cup (IF Get(components, "registry")
            THEN {REGISTRY_CONFIG_TEMPLATE_NAME,
                  REGISTRY_ADMIN_CONFIG_TEMPLATE_NAME}
            ELSE {})

\* lines 152-167: the set templates_to_generate
TemplatesToGenerate(components) ==
    (IF should_deploy_adapter(components)
     THEN {ADAPTER_CONFIG_TEMPLATE_NAME} ELSE {})
      \cup (IF Get(components, "gateway")
            THEN {GATEWAY_CONFIG_TEMPLATE_NAME} ELSE {})
      \cup (IF should_deploy_subscriber(components)
            THEN {SUBSCRIBER_CONFIG_TEMPLATE_NAME} ELSE {})
      \cup (IF Get(components, "registry")
            THEN {REGISTRY_CONFIG_TEMPLATE_NAME,
                  REGISTRY_ADMIN_CONFIG_TEMPLATE_NAME}
            ELSE {})

\* one call of _generate_file_from_template: the directory of the output and
\* the template
Job(output_dir, template_j2_filename) ==
    [output_dir |-> output_dir, template |-> template_j2_filename]

\* lines 180-187: the job of the infrastructure variables
TfVarsJob == Job(TF_VARS_OUTPUT_DIR, TFVARS_TEMPLATE_NAME)

\* what a job can fail with: the template is missing or does not render
\* (core/utils.py lines 48-55), or the file cannot be written (lines 121-123)
JobFailures ==
    {[step |-> "render", error |-> "FileNotFoundError"],
     [step |-> "render", error |-> "RuntimeError"],
     [step |-> "write", error |-> "OSError"]}

(***************************************************************************)
(* generate_app_configs (app_config_generator.py lines 138-193). It has no *)
(* await in it: what one call does is one of GenerateOutcomes, each with   *)
(* the result (ok, or the exception raised), the files it leaves and the   *)
(* calls it made, in order.                                                *)
(***************************************************************************)
\* a call with its argument
CallOn(op, arg, result) == [op |-> op, arg |-> arg, result |-> result]
RenderCall(template_name, result) ==
    CallOn("render_jinja_template", template_name, result)
WriteCall(file_path, result) ==
    CallOn("write_file_content", file_path, result)

\* fault: outputs.json that is not JSON is taken for loaded
LoadFails_OnlyMissing(outputs) == outputs.state = "missing"

\* lines 53-66, core/utils.py lines 77-90: every failure of the read is
\* raised again
LoadFails(outputs) == outputs.state # "ok"

\* core/utils.py lines 82-90: the exception of a failed read
LoadError(outputs) ==
    CASE outputs.state = "missing" -> "FileNotFoundError"
      [] outputs.state = "undecodable" -> "ValueError"
      [] OTHER -> "OSError"

\* fault: the file is opened for appending, what it had is kept in front
WriteFile_Appends(fs, job, context) ==
    [fs EXCEPT !.dirs = @ \cup {job.output_dir},
               !.present =
                   SetItem(@, OutputPath(job.output_dir, job.template),
                           IF OutputPath(job.output_dir, job.template)
                                 \in DOMAIN fs.present
                           THEN [before |-> fs.present[OutputPath(job.output_dir,
                                                                 job.template)],
                                 after |-> RenderedContent(job.template, context)]
                           ELSE RenderedContent(job.template, context))]

\* lines 125-130, core/utils.py lines 117-119: the job is done, the file is
\* there with what the template rendered to, in its directory
WriteFile(fs, job, context) ==
    [fs EXCEPT !.dirs = @ \cup {job.output_dir},
               !.present = SetItem(@, OutputPath(job.output_dir, job.template),
                                   RenderedContent(job.template, context))]

\* the calls of a job that is done, and of a job that fails
JobCalls(job) ==
    <<RenderCall(job.template, "ok"),
      WriteCall(OutputPath(job.output_dir, job.template), "ok")>>
FailedJobCalls(job, failure) ==
    IF failure.step = "render"
    THEN <<RenderCall(job.template, failure.error)>>
    ELSE <<RenderCall(job.template, "ok"),
           WriteCall(OutputPath(job.output_dir, job.template), failure.error)>>

\* fault: the directory is made anew, without the files it had
MakeDirs_Emptied(fs) ==
    [fs EXCEPT !.dirs = @ \cup {GENERATED_CONFIGS_DIR},
               !.present =
                   [f \in {g \in DOMAIN fs.present :
                              SubSeq(g, 1, Len(GENERATED_CONFIGS_DIR))
                                  # GENERATED_CONFIGS_DIR} |-> fs.present[f]]]

\* line 150: os.makedirs(GENERATED_CONFIGS_DIR, exist_ok=True)
MakeDirs(fs) == [fs EXCEPT !.dirs = @ \cup {GENERATED_CONFIGS_DIR}]

Outcome(result, fs, made) == [result |-> result, files |-> fs, calls |-> made]

\* fault: the infrastructure variables are generated behind a job that has
\* failed
FailedJob_GoesOn(job, failure, fs, made, context) ==
    Outcome(failure.error, WriteFile(fs, TfVarsJob, context),
            made \o FailedJobCalls(job, failure) \o JobCalls(TfVarsJob))

\* lines 132-134, 189-191: the exception of a job is raised again, out of
\* the loop and out of generate_app_configs. A write that fails is taken to
\* leave no file
FailedJob(job, failure, fs, made, context) ==
    Outcome(failure.error, fs, made \o FailedJobCalls(job, failure))

\* lines 180-187: the job of the infrastructure variables, the last one
TfVarsOutcomes(fs, made, context) ==
    {FailedJob(TfVarsJob, failure, fs, made, context) :
        failure \in JobFailures}
      \cup {Outcome("ok", WriteFile(fs, TfVarsJob, context),
                    made \o JobCalls(TfVarsJob))}

\* lines 172-178: the loop over the set templates_to_generate. The set is
\* iterated in any order (the hashes of str differ from one interpreter to
\* the next): the next template is any of those that remain
RECURSIVE LoopOutcomes(_, _, _, _)
LoopOutcomes(remaining, fs, made, context) ==
    IF remaining = {} THEN TfVarsOutcomes(fs, made, context)
    ELSE UNION {
           {FailedJob(job, failure, fs, made, context) :
               failure \in JobFailures}
             \cup UNION {LoopOutcomes(rest, written, called, context) :
                            rest \in {remaining \ {job.template}},
                            written \in {WriteFile(fs, job, context)},
                            called \in {made \o JobCalls(job)}} :
           job \in {Job(GENERATED_CONFIGS_DIR, t) : t \in remaining}}

GenerateOutcomes(app_deployment_request, fs) ==
    IF LoadFails(fs.outputs)
    THEN {Outcome(LoadError(fs.outputs), fs,
                  <<Call("read_json_file", LoadError(fs.outputs))>>)}
    ELSE UNION {LoopOutcomes(
                    TemplatesToGenerate(app_deployment_request.components),
                    made, <<Call("read_json_file", "ok"),
                            Call("makedirs", "ok")>>, context) :
                  made \in {MakeDirs(fs)},
                  context \in {prepare_template_context(
                                  app_deployment_request,
                                  InfraOutputValues(fs.outputs.data))}}

(***************************************************************************)
(* extract_final_urls (app_config_generator.py lines 230-274) and          *)
(* generate_logs_explorer_urls (lines 277-318).                            *)
(***************************************************************************)
\* an entry of the list "modules" of adapter.yaml: a module with a name and
\* a path, or something else
ModuleEntries ==
    {[kind |-> "module", name |-> "bap_receiver", path |-> "/bap/receiver"],
     [kind |-> "module", name |-> "bpp_caller", path |-> "bpp/caller"],
     [kind |-> "not_a_dict", name |-> "", path |-> ""],
     [kind |-> "no_path", name |-> "bap_caller", path |-> ""],
     [kind |-> "path_not_str", name |-> "bpp_receiver", path |-> ""]}

Module(name) == CHOOSE m \in ModuleEntries : m.name = name
NotADict == CHOOSE m \in ModuleEntries : m.kind = "not_a_dict"

\* the lists of modules that are tried
ModuleLists ==
    {<<>>,
     <<Module("bap_receiver")>>,
     <<Module("bap_receiver"), Module("bpp_caller")>>,
     <<NotADict, Module("bap_caller"), Module("bpp_caller")>>,
     <<Module("bap_receiver"), Module("bpp_receiver"), Module("bpp_caller")>>}

\* adapter.yaml when the script has ended: missing, not YAML, not readable,
\* or YAML that is empty (None), a mapping without "modules", a mapping
\* whose "modules" is no list, or a mapping with a list of modules
AdapterYamls ==
    {[state |-> st, kind |-> "None", modules |-> <<>>] :
        st \in {"missing", "invalid", "unreadable"}}
      \cup {[state |-> "ok", kind |-> k, modules |-> <<>>] :
               k \in {"None", "no_modules", "modules_not_list"}}
      \cup {[state |-> "ok", kind |-> "modules", modules |-> m] :
               m \in ModuleLists}

\* domain_names.get(key): the value, or None
HasKey(d, key) == \E i \in 1..Len(d) : d[i].key = key
ValueOf(d, key) == d[CHOOSE i \in 1..Len(d) : d[i].key = key].value

\* s.lstrip(c) for one character c: s from the first position on that has
\* another character
RECURSIVE LStripFrom(_, _, _)
LStripFrom(s, c, i) ==
    IF i <= Len(s) /\ CharAt(s, i) = c THEN LStripFrom(s, c, i + 1)
    ELSE SubSeq(s, i, Len(s))
LStripChar(s, c) == LStripFrom(s, c, 1)

\* lines 251-257: the loop over the modules; an entry that is no module is
\* passed over, and the exception of a path that is no str (line 256) leaves
\* the loop
RECURSIVE ModuleUrls(_, _, _)
ModuleUrls(service_urls, modules, url) ==
    IF modules = <<>> THEN service_urls
    ELSE LET module == modules[1]
         IN  CASE module.kind = "module" ->
                     ModuleUrls(SetItem(service_urls,
                                        "adapter_" \o module.name,
                                        url \o "/" \o LStripChar(module.path, "/")),
                                Tail(modules), url)
               [] module.kind = "path_not_str" -> service_urls
               [] OTHER -> ModuleUrls(service_urls, Tail(modules), url)

\* fault: a failed read of adapter.yaml takes the URL of the adapter away
AdapterUrls_DropsBase(service_urls, yaml, url) ==
    IF yaml.state # "ok"
    THEN [x \in DOMAIN service_urls \ {"adapter"} |-> service_urls[x]]
    ELSE IF yaml.kind = "modules"
         THEN ModuleUrls(service_urls, yaml.modules, url)
         ELSE service_urls

\* lines 247-268: every exception of the read and of the loop is logged and
\* dropped (lines 263-268); without a list "modules" nothing is added
AdapterUrls(service_urls, yaml, url) ==
    IF yaml.state = "ok" /\ yaml.kind = "modules"
    THEN ModuleUrls(service_urls, yaml.modules, url)
    ELSE service_urls

\* core/utils.py lines 96-109: what read_yaml_file does with adapter.yaml
YamlResult(yaml) ==
    CASE yaml.state = "ok" -> "ok"
      [] yaml.state = "missing" -> "FileNotFoundError"
      [] yaml.state = "invalid" -> "ValueError"
      [] OTHER -> "OSError"

\* lines 243-248: adapter.yaml is read when the adapter is a service with a
\* domain
ReadYamlCalls(domain_names, services, yaml) ==
    IF "adapter" \in SeqToSet(services) /\ HasKey(domain_names, "adapter")
    THEN <<CallOn("read_yaml_file", yaml, YamlResult(yaml))>>
    ELSE <<>>

\* lines 235-272: the loop over the services
RECURSIVE ServiceUrls(_, _, _, _)
ServiceUrls(service_urls, domain_names, services, yaml) ==
    IF services = <<>> THEN service_urls
    ELSE LET service_name == services[1]
             url == "https://" \o ValueOf(domain_names, service_name)
             this ==
                 IF ~HasKey(domain_names, service_name) THEN service_urls
                 ELSE IF service_name = "adapter"
                      THEN AdapterUrls(SetItem(service_urls, service_name, url),
                                       yaml, url)
                      ELSE SetItem(service_urls, service_name, url)
         IN  ServiceUrls(this, domain_names, Tail(services), yaml)

\* lines 230-274, with adapter.yaml as it is when it is read
extract_final_urls(domain_names, services, yaml) ==
    ServiceUrls(<<>>, domain_names, services, yaml)

\* infra_output_values.get(key): the value, or None
OutputValue(infra_output_values, key) ==
    IF key \in DOMAIN infra_output_values THEN infra_output_values[key]
    ELSE "None"

\* lines 293-310: the URL of one service, as the values it is made of
LogsExplorerUrl(service_name, infra_output_values) ==
    [container_name |-> "onix-" \o Replace(service_name, "_", "-"),
     cluster_name |-> OutputValue(infra_output_values, "cluster_name"),
     location |-> OutputValue(infra_output_values, "cluster_region"),
     project |-> OutputValue(infra_output_values, "project_id")]

\* lines 277-318, with outputs.json as it is when it is read: every
\* exception is logged and dropped (lines 314-315)
generate_logs_explorer_urls(service_names, outputs) ==
    IF LoadFails(outputs) THEN <<>>
    ELSE [service_name \in SeqToSet(service_names) |->
             LogsExplorerUrl(service_name, InfraOutputValues(outputs.data))]

(***************************************************************************)
(* run_app_deployment (services/deployment_manager.py lines 125-208).      *)
(***************************************************************************)
\* lines 130-132
AppBegin ==
    /\ flow = "app"
    /\ pc = "start"
    /\ SendOrLeave(MsgAppGenerating, "generate")
    /\ UNCHANGED <<calls, wsOpen, flow, process, nread, logged>>
    /\ UNCHANGED pollerVars
    /\ UNCHANGED appVars

\* lines 134-136
AppGenerate ==
    /\ flow = "app"
    /\ pc = "generate"
    /\ \E outcome \in GenerateOutcomes(request, files) :
          /\ calls' = calls \o outcome.calls
                         \o <<Call("generate_app_configs", outcome.result)>>
          /\ files' = outcome.files
          /\ IF outcome.result # "ok" THEN AppExcept(outcome.result)
             ELSE IF wsOpen
                  THEN /\ sent' = Append(sent, MsgAppGenerated)
                       /\ pc' = "prepare"
                       /\ UNCHANGED exc
                  ELSE AppExcept("send_failed")
    /\ UNCHANGED <<wsOpen, flow, process, nread, logged>>
    /\ UNCHANGED <<request, environ, locals>>
    /\ UNCHANGED pollerVars

\* lines 138-153: the services, the environment of the script and the notice
AppPrepare ==
    /\ flow = "app"
    /\ pc = "prepare"
    /\ \E services \in {get_services_to_deploy(request)} :
       \E env_vars_for_script \in
               {get_deployment_environment_variables(request, services)} :
          locals' = [services |-> services,
                     env_vars_for_script |-> env_vars_for_script,
                     subprocess_env |-> Overlay(environ, env_vars_for_script)]
    /\ calls' = calls \o <<Call("_get_services_to_deploy", "ok"),
                           Call("get_deployment_environment_variables", "ok")>>
    /\ IF wsOpen
       THEN /\ sent' = Append(sent, MsgAppExecuting)
            /\ pc' = "launch"
            /\ UNCHANGED exc
       ELSE AppExcept("send_failed")
    /\ UNCHANGED <<wsOpen, flow, process, nread, logged>>
    /\ UNCHANGED <<request, files, environ>>
    /\ UNCHANGED pollerVars

\* lines 156-164: the script is given subprocess_env
AppLaunch ==
    /\ flow = "app"
    /\ pc = "launch"
    /\ \E result \in LaunchResults :
          IF result = "ok"
          THEN /\ \E o \in SampleOutputs :
                     process' = RunningProcess(TRUE, o, NoArtifact)
               /\ calls' = calls \o <<CallOn("create_subprocess_exec",
                                              locals.subprocess_env, "ok"),
                                      Call("stream_subprocess_output", "called")>>
               /\ pc' = "stream"
               /\ UNCHANGED <<sent, exc>>
          ELSE /\ calls' = Append(calls, CallOn("create_subprocess_exec",
                                                locals.subprocess_env, result))
               /\ AppExcept(result)
               /\ UNCHANGED process
    /\ UNCHANGED <<wsOpen, flow, nread, logged>>
    /\ UNCHANGED pollerVars
    /\ UNCHANGED appVars

\* outputs.json when the script has ended: as it was, or gone
\* app_config_generator.py line 287: the load of outputs.json for the
\* log-query URLs, with what is read and how the read ends
LoadCall(outputs) ==
    CallOn("_load_infrastructure_outputs", outputs,
           IF LoadFails(outputs) THEN LoadError(outputs) ELSE "ok")

ClusterOutputs ==
    [state |-> "ok",
     data |-> [project_id |-> [value |-> "test-project-id"],
               cluster_name |-> [value |-> "test-cluster"],
               cluster_region |-> [value |-> "us-central1"]]]
OutputsAtEnd(fs) == {fs.outputs, NoArtifact, ClusterOutputs}

\* lines 166-199: process.wait() returns, and the result of the script is
\* reported; the URLs of a success are derived from outputs.json and
\* adapter.yaml as they are then
AppWait ==
    /\ flow = "app"
    /\ pc = "wait"
    /\ process.st = "exited"
    /\ LET return_code == process.returncode
       IN  IF ScriptSucceeded(return_code)
           THEN \E outputs \in OutputsAtEnd(files) : \E yaml \in AdapterYamls :
                   LET log_exploer_urls ==
                           generate_logs_explorer_urls(locals.services, outputs)
                       service_urls ==
                           extract_final_urls(request.domain_names,
                                              locals.services, yaml)
                   IN  /\ calls' = calls \o <<Call("wait", "returned"),
                                              LoadCall(outputs),
                                              Call("generate_logs_explorer_urls", "ok")>>
                                         \o ReadYamlCalls(request.domain_names,
                                                          locals.services, yaml)
                                         \o <<Call("extract_final_urls", "ok")>>
                       /\ IF wsOpen
                          THEN /\ sent' = Append(sent,
                                              MsgAppSuccess(service_urls,
                                                            locals.services,
                                                            log_exploer_urls))
                               /\ pc' = "returned"
                               /\ UNCHANGED exc
                          ELSE AppExcept("send_failed")
           ELSE /\ calls' = Append(calls, Call("wait", "returned"))
                /\ IF wsOpen
                   THEN /\ sent' = Append(sent, MsgAppScriptFailed(return_code))
                        /\ pc' = "returned"
                        /\ UNCHANGED exc
                   ELSE AppExcept("send_failed")
    /\ UNCHANGED <<wsOpen, flow, process, nread, logged>>
    /\ UNCHANGED pollerVars
    /\ UNCHANGED appVars

\* the requests the flows are run on: bap alone, with a domain for the
\* adapter, and the registry alone, with a domain for it
FlowRequests ==
    {Request([k \in {"bap"} |-> TRUE],
             <<Entry("adapter", "a.com")>>, <<Entry("adapter", "repo/a:v1")>>,
             [present |-> TRUE, enable_schema_validation |-> "True"]),
     Request([k \in {"registry", "bap"} |-> (k = "registry")],
             <<Entry("registry", "b.com")>>, <<>>,
             BapRequest.adapter_config)}

\* one deployment flow is started on an open channel
DeployInit ==
    /\ PollerIdle
    /\ flow \in {"infra", "app"}
    /\ IF flow = "app"
       THEN /\ request \in FlowRequests
            /\ files \in InitialFiles
       ELSE /\ request = NoRequest
            /\ files = NoFiles
    /\ environ = Environ
    /\ locals = NoLocals
    /\ pc = "start"
    /\ process = NoProcess
    /\ nread = 0
    /\ logged = <<>>
    /\ sent = <<>>
    /\ calls = <<>>
    /\ wsOpen = TRUE
    /\ exc = "none"

DeployNext ==
    \/ InfraBegin
    \/ InfraGenerate
    \/ InfraAnnounce
    \/ InfraLaunch
    \/ InfraWait
    \/ AppBegin
    \/ AppGenerate
    \/ AppPrepare
    \/ AppLaunch
    \/ AppWait
    \/ StreamLine
    \/ StreamEof
    \/ ReadlineRaises
    \/ ProcessExits
    \/ ChannelBreaks

DeploySpec == DeployInit /\ [][DeployNext]_vars

\* the environments of the server that are tried: Environ, and one that has
\* variables with the names of derived variables
Environs ==
    {Environ,
     [x \in {"PATH", "ADAPTER_DOMAIN", "DEPLOY_SERVICES"} |-> "ambient"]}

\* outputs.json is there and is JSON
OkFiles == {fs \in InitialFiles : fs.outputs.state = "ok"}

\* the application flow is started on one of the requests: with every
\* component map on outputs.json in every state, with the other requests on
\* outputs.json that is JSON, in every environment
ConfigInit ==
    /\ PollerIdle
    /\ flow = "app"
    /\ \/ /\ request \in ComponentRequests
          /\ files \in InitialFiles
          /\ environ = Environ
       \/ /\ request \in DictRequests \cup AdapterConfigRequests
          /\ files = CHOOSE fs \in OkFiles : TRUE
          /\ environ \in Environs
    /\ locals = NoLocals
    /\ pc = "start"
    /\ process = NoProcess
    /\ nread = 0
    /\ logged = <<>>
    /\ sent = <<>>
    /\ calls = <<>>
    /\ wsOpen = TRUE
    /\ exc = "none"

\* the flow up to the launch of the script
ConfigNext == AppBegin \/ AppGenerate \/ AppPrepare

ConfigSpec == ConfigInit /\ [][ConfigNext]_vars

(***************************************************************************)
(* Reading the run of a deployment flow.                                   *)
(***************************************************************************)
IsTerminal(m) == m.type \in {"error", "success"}
IsError(m) == m.type = "error"
IsSuccess(m) == m.type = "success"
IsNotLog(m) == m.type # "log"

Terminals == SelectSeq(sent, IsTerminal)
Errors == SelectSeq(sent, IsError)
Successes == SelectSeq(sent, IsSuccess)
NonLogMessages == SelectSeq(sent, IsNotLog)

Called(op) == \E i \in 1..Len(calls) : calls[i].op = op
CalledWith(op, result) ==
    \E i \in 1..Len(calls) : calls[i].op = op /\ calls[i].result = result

GenerationFailed == Called("generate_config") /\ ~CalledWith("generate_config", "ok")
LaunchFailed ==
    Called("create_subprocess_exec")
        /\ ~CalledWith("create_subprocess_exec", "ok")
ExitAwaited == Called("wait")

\* the errors of the handlers of the main try block of the infra flow, which
\* report a failed launch
LaunchFailureErrors ==
    {MsgInfraScriptNotFound}
        \cup {MsgInfraException(e) : e \in LaunchResults \ {"ok"}}
ScriptFailureErrors == {MsgInfraScriptFailed(c) : c \in ExitCodes}
OutputsUnreadableErrors == {MsgOutputsNotFound, MsgOutputsUndecodable}

(* C14: a run of either flow whose sends succeed does not end by an
   exception, whatever fails; when it has ended it has sent exactly one
   message of type error or success, as its last message (so behind every
   log message), and none before it has ended. *)
Deploy_OneTerminalMessage ==
    /\ wsOpen => pc # "raised"
    /\ pc = "returned" =>
          /\ Len(Terminals) = 1
          /\ IsTerminal(sent[Len(sent)])
    /\ pc \notin {"returned", "raised"} => Terminals = <<>>
    /\ pc = "raised" => Terminals = <<>>

\* the app flow has ended with the error of an exception of the streamer,
\* behind a streamed line
Deploy_OneTerminalMessage_Witness ==
    /\ flow = "app"
    /\ pc = "returned"
    /\ Len(LogMessages) = 1
    /\ nread = 2
    /\ sent[Len(sent)] = MsgAppException("ValueError")

(* C15: when the generation of the infra configuration fails, the run ends
   there: no process is launched, nothing is streamed, no exit code awaited
   and no artifact read (the failed generation is the only call), and the
   error of the generation is the only message behind the first notice. *)
Infra_GenerationFailureEnds ==
    (flow = "infra" /\ GenerationFailed) =>
        /\ pc \in {"returned", "raised"}
        /\ calls = <<Call("generate_config", "Exception")>>
        /\ process = NoProcess
        /\ nread = 0
        /\ logged = <<>>
        /\ pc = "returned" =>
              sent = <<MsgInfraGenerating, MsgInfraGenerateFailed("Exception")>>
        /\ pc = "raised" => ~wsOpen /\ sent = <<MsgInfraGenerating>>

Infra_GenerationFailureEnds_Witness ==
    /\ flow = "infra"
    /\ GenerationFailed
    /\ pc = "returned"
    /\ Len(Errors) = 1

(* C16: the exit code is awaited only when the streamer has read the end of
   the stream and returned; when the code is not 0 the artifact is never
   opened and the run ends with the script-failure error that carries the
   code, its only error. *)
Infra_NonZeroExit ==
    (flow = "infra" /\ ExitAwaited) =>
        /\ EofRead
        /\ process.st = "exited"
        /\ calls[3] = Call("stream_subprocess_output", "called")
        /\ calls[4] = Call("wait", "returned")
        /\ process.returncode # 0 =>
              /\ ~Called("open")
              /\ ~Called("json.load")
              /\ Len(calls) = 4
              /\ pc \in {"returned", "raised"}
              /\ pc = "returned" =>
                    /\ sent[Len(sent)]
                          = [type |-> "error",
                             message |-> <<"Script failed with exit code: ",
                                           ToString(process.returncode)>>]
                    /\ Len(Errors) = 1
                    /\ Successes = <<>>
              /\ pc = "raised" => ~wsOpen /\ Terminals = <<>>

\* the script has ended with code 2 behind two streamed lines and has left a
\* readable artifact behind
Infra_NonZeroExit_Witness ==
    /\ flow = "infra"
    /\ pc = "returned"
    /\ ExitAwaited
    /\ process.returncode = 2
    /\ process.artifact.state = "ok"
    /\ Len(LogMessages) = 2

\* the infra script has ended with code 1 and the run has reported it
ExitedWithOne ==
    /\ flow = "infra"
    /\ pc = "returned"
    /\ ExitAwaited
    /\ process.returncode = 1

(* C17 as stated: when the infra script exits with code 1, the messages
   that are not log messages are two info messages and then one error
   message that contains "exit code: 1". *)
Infra_ExitOne_TwoInfos ==
    ExitedWithOne =>
        /\ Len(NonLogMessages) = 3
        /\ NonLogMessages[1].type = "info"
        /\ NonLogMessages[2].type = "info"
        /\ NonLogMessages[3].type = "error"
        /\ NonLogMessages[3].message = <<"Script failed with exit code: ", "1">>

(* C17 as amended: when the infra script exits with code 1, the messages
   that are not log messages are three info messages (generating,
   generated, executing) and then one error message that contains
   "exit code: 1". *)
Infra_ExitOne_ThreeInfos ==
    ExitedWithOne =>
        /\ Len(NonLogMessages) = 4
        /\ \A i \in 1..3 : NonLogMessages[i].type = "info"
        /\ SubSeq(NonLogMessages, 1, 3)
              = <<MsgInfraGenerating, MsgInfraGenerated, MsgInfraExecuting>>
        /\ NonLogMessages[4].type = "error"
        /\ NonLogMessages[4].message = <<"Script failed with exit code: ", "1">>
        /\ SubSeq(sent, 1, 3) = SubSeq(NonLogMessages, 1, 3)
        /\ sent[Len(sent)] = NonLogMessages[4]

Infra_ExitOne_ThreeInfos_Witness ==
    /\ ExitedWithOne
    /\ Len(LogMessages) = 1
    /\ Len(sent) = 5

(* C18: a success message is sent only when the script has ended with code
   0 and the artifact has been opened and parsed, and then, the sends
   succeeding, it is sent; there is one, and its payload is the content of
   the artifact. *)
Infra_SuccessIffOutputsRead ==
    flow = "infra" =>
        /\ Successes # <<>> =>
              /\ ExitAwaited
              /\ process.returncode = 0
              /\ CalledWith("open", "ok")
              /\ CalledWith("json.load", "ok")
              /\ Len(Successes) = 1
              /\ Successes[1].message = process.artifact.data
              /\ DOMAIN Successes[1] = {"type", "message"}
        /\ (pc = "returned" /\ ExitAwaited /\ process.returncode = 0
               /\ CalledWith("json.load", "ok")) => Successes # <<>>

Infra_SuccessIffOutputsRead_Witness ==
    /\ flow = "infra"
    /\ pc = "returned"
    /\ Successes = <<[type |-> "success",
                      message |-> [output_key |-> [value |-> "other_value"]]]>>
    /\ Len(LogMessages) = 1

\* the infra script has ended with code 0, the artifact could not be read and
\* the run has ended
OutputsUnreadable ==
    /\ flow = "infra"
    /\ pc = "returned"
    /\ ExitAwaited
    /\ process.returncode = 0
    /\ process.artifact.state # "ok"

(* C19 as stated: when the script exits 0 and the artifact cannot be read,
   whatever the failure of the read, the run sends no success and no
   script-failure message and exactly one error, which is not an error of a
   failed script nor one of a failed launch. *)
Infra_OutputsUnreadable_AlwaysDistinct ==
    OutputsUnreadable =>
        /\ Successes = <<>>
        /\ Len(Errors) = 1
        /\ Errors[1] \notin ScriptFailureErrors
        /\ Errors[1] \notin LaunchFailureErrors

(* C19 as amended: when the script exits 0 and the artifact cannot be read,
   the run sends no success and no script-failure message and exactly one
   error. When the artifact is missing or is not valid JSON, that error is
   an outputs-unreadable error, which no failed script and no failed launch
   produces; for any other failure of the read it is the error of the
   general handler, which a failed launch produces too. *)
Infra_OutputsUnreadable_Distinct ==
    OutputsUnreadable =>
        /\ Successes = <<>>
        /\ Len(Errors) = 1
        /\ Errors[1] \notin ScriptFailureErrors
        /\ process.artifact.state = "missing" => Errors[1] = MsgOutputsNotFound
        /\ process.artifact.state = "undecodable" =>
              Errors[1] = MsgOutputsUndecodable
        /\ process.artifact.state \in {"missing", "undecodable"} =>
              /\ Errors[1] \in OutputsUnreadableErrors
              /\ Errors[1] \notin LaunchFailureErrors
        /\ process.artifact.state = "unreadable" =>
              /\ Errors[1] = MsgInfraException("PermissionError")
              /\ Errors[1] \in LaunchFailureErrors
        /\ OutputsUnreadableErrors
              \cap (LaunchFailureErrors \cup ScriptFailureErrors) = {}

Infra_OutputsUnreadable_Distinct_Witness ==
    /\ OutputsUnreadable
    /\ process.artifact.state = "undecodable"
    /\ Len(LogMessages) = 1

\* the other case of the amended claim: a read that fails otherwise
Infra_OutputsUnreadable_Other_Witness ==
    /\ OutputsUnreadable
    /\ process.artifact.state = "unreadable"

(* C20: when the launch of the script raises, the exception is caught: the
   run, its sends succeeding, returns; it has sent one error, which is an
   error of a failed launch and not the error of a non-zero exit; nothing is
   streamed, no exit code is awaited and the artifact is not read. *)
Infra_LaunchFailureCaught ==
    (flow = "infra" /\ LaunchFailed) =>
        /\ pc \in {"returned", "raised"}
        /\ wsOpen => pc = "returned"
        /\ pc = "returned" =>
              /\ Len(Errors) = 1
              /\ Errors[1] = sent[Len(sent)]
              /\ Errors[1] \in LaunchFailureErrors
              /\ Errors[1] \notin ScriptFailureErrors
              /\ Len(sent) = 4
        /\ pc = "raised" => ~wsOpen /\ Errors = <<>>
        /\ process = NoProcess
        /\ ~Called("stream_subprocess_output")
        /\ ~Called("wait")
        /\ ~Called("open")
        /\ nread = 0
        /\ LogMessages = <<>>
        /\ logged = <<>>

Infra_LaunchFailureCaught_Witness ==
    /\ flow = "infra"
    /\ LaunchFailed
    /\ pc = "returned"
    /\ sent[Len(sent)] = MsgInfraScriptNotFound

(***************************************************************************)
(* Reading the run of the application flow.                                *)
(***************************************************************************)
\* the result of the first call of op
ResultOf(op) == calls[CHOOSE i \in 1..Len(calls) : calls[i].op = op].result
ArgOf(op) == calls[CHOOSE i \in 1..Len(calls) : calls[i].op = op].arg

AppGenerationFailed ==
    /\ flow = "app"
    /\ Called("generate_app_configs")
    /\ ResultOf("generate_app_configs") # "ok"
AppLaunchFailed ==
    /\ flow = "app"
    /\ Called("create_subprocess_exec")
    /\ ResultOf("create_subprocess_exec") # "ok"

\* nothing has been done for the launch of the script
NothingLaunched ==
    /\ ~Called("_get_services_to_deploy")
    /\ ~Called("get_deployment_environment_variables")
    /\ locals = NoLocals
    /\ ~Called("create_subprocess_exec")
    /\ process = NoProcess

\* the action of the one error that the flow has sent
OneErrorWithAction(a) ==
    /\ Len(Errors) = 1
    /\ Errors[1] = sent[Len(sent)]
    /\ Errors[1].action = a
    /\ Successes = <<>>

(* C21, as stated: in the application flow, whatever exception
   generate_app_configs raises, the run sends the message with the action
   app_config_error, computes no environment variables and launches no
   subprocess. *)
App_GenerationFailure_ConfigError ==
    AppGenerationFailed =>
        /\ NothingLaunched
        /\ pc = "returned" => OneErrorWithAction("app_config_error")

(* C21, amended: when generate_app_configs raises, the run computes no
   environment variables and launches no subprocess, and a run whose sends
   succeed ends with one error: with the action app_config_error when the
   exception is a FileNotFoundError, with the action app_deploy_exception
   when it is any other exception. *)
App_GenerationFailure_ByException ==
    AppGenerationFailed =>
        /\ NothingLaunched
        /\ pc \in {"returned", "raised"}
        /\ wsOpen => pc = "returned"
        /\ pc = "returned" =>
              OneErrorWithAction(
                  IF ResultOf("generate_app_configs") = "FileNotFoundError"
                  THEN "app_config_error"
                  ELSE "app_deploy_exception")

\* outputs.json is not JSON: the ValueError is reported as an unexpected
\* error
App_GenerationFailure_ByException_Witness ==
    /\ AppGenerationFailed
    /\ files.outputs.state = "undecodable"
    /\ ResultOf("generate_app_configs") = "ValueError"
    /\ pc = "returned"
    /\ sent[Len(sent)] = MsgAppException("ValueError")

(* C22, as stated: in the application flow, whatever exception the launch
   of the script raises, the run sends the error with the action
   app_deploy_exception, which is neither the message of a failed
   generation (app_config_error) nor that of a failed script
   (app_deploy_failed). *)
App_LaunchFailure_Generic ==
    (AppLaunchFailed /\ pc = "returned") =>
        OneErrorWithAction("app_deploy_exception")

(* C22, amended: when the launch of the script raises, no process runs, and
   a run whose sends succeed ends with one error, never the one of a failed
   script (app_deploy_failed): with the action app_config_error, the
   message of a failed generation, when the exception is a
   FileNotFoundError, and with the action app_deploy_exception when it is
   any other exception. *)
App_LaunchFailure_ByException ==
    AppLaunchFailed =>
        /\ process = NoProcess
        /\ ~Called("stream_subprocess_output")
        /\ ~Called("wait")
        /\ pc \in {"returned", "raised"}
        /\ wsOpen => pc = "returned"
        /\ pc = "returned" =>
              /\ OneErrorWithAction(
                     IF ResultOf("create_subprocess_exec") = "FileNotFoundError"
                     THEN "app_config_error"
                     ELSE "app_deploy_exception")
              /\ Errors[1].action # "app_deploy_failed"

\* the shell is missing: the launch is reported as a failed generation
App_LaunchFailure_ByException_Witness ==
    /\ AppLaunchFailed
    /\ ResultOf("generate_app_configs") = "ok"
    /\ ResultOf("create_subprocess_exec") = "FileNotFoundError"
    /\ pc = "returned"
    /\ sent[Len(sent)] = MsgAppConfigError("FileNotFoundError")

\* the script of the application flow has exited and its exit was awaited
AppExitAwaited == flow = "app" /\ Called("wait")

\* m is one of the success messages of the request: the yaml state and the
\* outputs state are looked for one after the other, on values computed once
IsAppSuccessMessage(m) ==
    \E services \in {get_services_to_deploy(request)} :
        /\ DOMAIN m = {"type", "action", "message", "data"}
        /\ m.type = "success"
        /\ m.action = "app_deploy_complete"
        /\ m.message = <<"Application deployment successful!">>
        /\ DOMAIN m.data =
              {"service_urls", "services_deployed", "logs_explorer_urls"}
        /\ m.data.services_deployed = services
        /\ \E yaml \in AdapterYamls :
              m.data.service_urls =
                  extract_final_urls(request.domain_names, services, yaml)
        /\ \E outputs \in OutputsAtEnd(files) :
              m.data.logs_explorer_urls =
                  generate_logs_explorer_urls(services, outputs)

(* C23: in the application flow the app_deploy_complete message is sent if
   and only if the script exited with code 0 (in a run whose sends succeed),
   and it carries the service URLs, the log-query URLs and the list of the
   deployed services; when the script exits with another code the run sends
   app_deploy_failed with that code and derives neither the service URLs
   nor the log-query URLs. *)
App_SuccessIffExitZero ==
    flow = "app" =>
        /\ Successes # <<>> =>
              /\ AppExitAwaited
              /\ process.returncode = 0
              /\ Len(Successes) = 1
              /\ Successes[1] = sent[Len(sent)]
              /\ IsAppSuccessMessage(Successes[1])
              /\ Errors = <<>>
        /\ (AppExitAwaited /\ process.returncode = 0) =>
              /\ Called("extract_final_urls")
              /\ Called("generate_logs_explorer_urls")
              /\ pc \in {"returned", "raised"}
              /\ wsOpen => pc = "returned"
              /\ pc = "returned" => Successes # <<>>
        /\ (AppExitAwaited /\ process.returncode # 0) =>
              /\ ~Called("extract_final_urls")
              /\ ~Called("read_yaml_file")
              /\ ~Called("generate_logs_explorer_urls")
              /\ Successes = <<>>
              /\ pc \in {"returned", "raised"}
              /\ wsOpen => pc = "returned"
              /\ pc = "returned" =>
                    /\ Len(Errors) = 1
                    /\ Errors[1] = sent[Len(sent)]
                    /\ Errors[1] = MsgAppScriptFailed(process.returncode)

\* the bap request succeeds: the adapter and the subscriber are listed, the
\* adapter has its base URL, and both have a log query
App_SuccessIffExitZero_Witness ==
    /\ AppExitAwaited
    /\ process.returncode = 0
    /\ pc = "returned"
    /\ Successes # <<>>
    /\ Successes[1].data.services_deployed = <<"adapter", "subscriber">>
    /\ Successes[1].data.service_urls["adapter"] = "https://a.com"
    /\ DOMAIN Successes[1].data.logs_explorer_urls = {"adapter", "subscriber"}

\* the key is in the component map with the value true
IsTrue(components, key) ==
    \E k \in DOMAIN components : k = key /\ components[k] = TRUE

\* the names of the services in lexicographic order
ServicesInOrder ==
    <<"adapter", "gateway", "registry", "registry_admin", "subscriber">>

\* the services that the component selector has returned
ServicesSelected == flow = "app" /\ Called("_get_services_to_deploy")

(* C24: for every component map over the keys bap, bpp, gateway and registry
   (each true, false or absent) the selector does not raise and returns,
   without repetition and in lexicographic order, the services with: adapter
   iff bap or bpp; gateway iff gateway; subscriber iff bap or bpp or
   gateway; registry and registry_admin iff registry; an absent key counts
   as false. *)
Selector_ServicesOfComponents ==
    ServicesSelected =>
        LET c == request.components
            S == SeqToSet(locals.services)
        IN  /\ ResultOf("_get_services_to_deploy") = "ok"
            /\ "adapter" \in S <=> (IsTrue(c, "bap") \/ IsTrue(c, "bpp"))
            /\ "gateway" \in S <=> IsTrue(c, "gateway")
            /\ "subscriber" \in S <=>
                  (IsTrue(c, "bap") \/ IsTrue(c, "bpp") \/ IsTrue(c, "gateway"))
            /\ "registry" \in S <=> IsTrue(c, "registry")
            /\ "registry_admin" \in S <=> IsTrue(c, "registry")
            /\ S \subseteq SeqToSet(ServicesInOrder)
            /\ locals.services =
                  SelectSeq(ServicesInOrder, LAMBDA x : x \in S)

\* the gateway and the registry are selected, bap is false and bpp absent:
\* four services, in order
Selector_ServicesOfComponents_Witness ==
    /\ ServicesSelected
    /\ DOMAIN request.components = {"bap", "gateway", "registry"}
    /\ request.components["bap"] = FALSE
    /\ locals.services =
          <<"gateway", "registry", "registry_admin", "subscriber">>

\* the arguments of the calls of op, in order, and those of the calls that
\* returned
CallsOf(op) == SelectSeq(calls, LAMBDA c : c.op = op)
ArgsOf(op) == {CallsOf(op)[i].arg : i \in 1..Len(CallsOf(op))}
ArgsDone(op) ==
    {CallsOf(op)[i].arg :
        i \in {j \in 1..Len(CallsOf(op)) : CallsOf(op)[j].result = "ok"}}

AppGenerationDone ==
    /\ flow = "app"
    /\ Called("generate_app_configs")
    /\ ResultOf("generate_app_configs") = "ok"

\* the template of each service and the file it is written to
TemplateOfService ==
    [adapter |-> "adapter.yaml.j2", gateway |-> "gateway.yaml.j2",
     subscriber |-> "subscriber.yaml.j2", registry |-> "registry.yaml.j2",
     registry_admin |-> "registry-admin.yaml.j2"]
FileOfTemplate ==
    ("adapter.yaml.j2" :> "generated_configs/adapter.yaml")
      @@ ("gateway.yaml.j2" :> "generated_configs/gateway.yaml")
      @@ ("subscriber.yaml.j2" :> "generated_configs/subscriber.yaml")
      @@ ("registry.yaml.j2" :> "generated_configs/registry.yaml")
      @@ ("registry-admin.yaml.j2" :> "generated_configs/registry-admin.yaml")
      @@ ("p2.tfvars.j2" :> "terraform/phase2/p2.tfvars")

\* the templates of the services of the request, and the one of the
\* infrastructure variables
TemplatesOfRequest ==
    {TemplateOfService[x] : x \in SeqToSet(get_services_to_deploy(request))}
        \cup {"p2.tfvars.j2"}

(* C25: for every component map, a generate_app_configs that succeeds has
   rendered, once each, exactly the templates of the selected services
   (adapter, gateway, subscriber, registry and registry-admin) and the
   template of the infrastructure variables, which is rendered whatever the
   map is, and has written exactly their files. *)
Generate_TemplatesOfServices ==
    AppGenerationDone =>
        /\ ArgsOf("render_jinja_template") = TemplatesOfRequest
        /\ Len(CallsOf("render_jinja_template")) =
              Cardinality(TemplatesOfRequest)
        /\ ArgsDone("render_jinja_template") = TemplatesOfRequest
        /\ ArgsOf("write_file_content") =
              {FileOfTemplate[t] : t \in TemplatesOfRequest}
        /\ Len(CallsOf("write_file_content")) =
              Cardinality(TemplatesOfRequest)
        /\ DOMAIN files.present =
              {FileOfTemplate[t] : t \in TemplatesOfRequest}
        /\ \A t \in TemplatesOfRequest :
              files.present[FileOfTemplate[t]].template = t

\* the gateway alone: the gateway and the subscriber templates and the
\* infrastructure variables, no adapter template
Generate_TemplatesOfServices_Witness ==
    /\ AppGenerationDone
    /\ DOMAIN request.components = {"gateway", "bap"}
    /\ request.components["gateway"] = TRUE
    /\ request.components["bap"] = FALSE
    /\ ArgsOf("render_jinja_template") =
          {"gateway.yaml.j2", "subscriber.yaml.j2", "p2.tfvars.j2"}

\* the positions in calls of the render and write calls, and of those that
\* raised
IsJobCall(c) == c.op \in {"render_jinja_template", "write_file_content"}
JobCallsAt == {i \in 1..Len(calls) : IsJobCall(calls[i])}
FailedJobCallsAt == {i \in JobCallsAt : calls[i].result # "ok"}

\* rendering or writing a template has failed in generate_app_configs
TemplateFailed == flow = "app" /\ FailedJobCallsAt # {}

(* C26: when rendering or writing a template fails in generate_app_configs,
   nothing is rendered or written after it (the infrastructure variables
   included), the files written before it are in place, and the error goes
   to the orchestrator, which launches no subprocess. *)
Generate_FailureAbortsBatch ==
    TemplateFailed =>
        /\ Cardinality(FailedJobCallsAt) = 1
        /\ \A i \in FailedJobCallsAt :
              /\ \A j \in JobCallsAt : j <= i
              /\ ResultOf("generate_app_configs") = calls[i].result
              /\ calls[i].arg \notin
                    {"p2.tfvars.j2", "terraform/phase2/p2.tfvars"}
                  => /\ "p2.tfvars.j2" \notin ArgsOf("render_jinja_template")
                     /\ "terraform/phase2/p2.tfvars" \notin DOMAIN files.present
        /\ DOMAIN files.present = ArgsDone("write_file_content")
        /\ Len(CallsOf("render_jinja_template"))
              \in {Len(CallsOf("write_file_content")),
                   Cardinality(DOMAIN files.present) + 1}
        /\ AppGenerationFailed
        /\ NothingLaunched

\* the second template of the bap request cannot be written: the first file
\* is there, the infrastructure variables are not rendered
Generate_FailureAbortsBatch_Witness ==
    /\ TemplateFailed
    /\ pc = "returned"
    /\ Cardinality(DOMAIN files.present) = 1
    /\ Len(CallsOf("write_file_content")) = 2
    /\ ResultOf("generate_app_configs") = "OSError"
    /\ "p2.tfvars.j2" \notin ArgsOf("render_jinja_template")

\* outputs.json is absent or is not JSON in the application flow
OutputsNotLoaded ==
    /\ flow = "app"
    /\ files.outputs.state # "ok"

(* C27: when outputs.json is absent or cannot be parsed, generate_app_configs
   fails at the read: it renders no template, writes no file and creates no
   directory, and the application flow launches no subprocess. *)
Generate_NoOutputsNoEffect ==
    OutputsNotLoaded =>
        /\ ~Called("makedirs")
        /\ ~Called("render_jinja_template")
        /\ ~Called("write_file_content")
        /\ files.dirs = {}
        /\ files.present = <<>>
        /\ NothingLaunched
        /\ pc \in {"start", "generate", "returned", "raised"}
        /\ Called("generate_app_configs") =>
              /\ AppGenerationFailed
              /\ ResultOf("read_json_file") # "ok"
              /\ ResultOf("generate_app_configs") = ResultOf("read_json_file")

\* outputs.json is not JSON: the flow has returned with an error and
\* nothing was made
Generate_NoOutputsNoEffect_Witness ==
    /\ OutputsNotLoaded
    /\ files.outputs.state = "undecodable"
    /\ Called("generate_app_configs")
    /\ pc = "returned"
    /\ Len(Errors) = 1
    /\ files.dirs = {}

\* the environment variables of the script have been computed
EnvVarsComputed ==
    flow = "app" /\ Called("get_deployment_environment_variables")

\* the key of an entry in upper case, its hyphens replaced by underscores
KeyInUpperCase ==
    ("adapter" :> "ADAPTER") @@ ("Adapter" :> "ADAPTER")
      @@ ("registry_admin" :> "REGISTRY_ADMIN")
      @@ ("registry-admin" :> "REGISTRY_ADMIN")
DomainVar(key) == KeyInUpperCase[key] \o "_DOMAIN"
ImageUrlVar(key) == KeyInUpperCase[key] \o "_IMAGE_URL"

\* the names of the services of the request, in lexicographic order, with
\* commas between them
ServicesWithCommas ==
    LET c == request.components
        S == (IF IsTrue(c, "bap") \/ IsTrue(c, "bpp") THEN {1} ELSE {})
               \cup (IF IsTrue(c, "gateway") THEN {2} ELSE {})
               \cup (IF IsTrue(c, "registry") THEN {3, 4} ELSE {})
               \cup (IF IsTrue(c, "bap") \/ IsTrue(c, "bpp")
                          \/ IsTrue(c, "gateway") THEN {5} ELSE {})
        Part(i) == IF i \notin S THEN ""
                   ELSE (IF \E j \in S : j < i THEN "," ELSE "")
                           \o ServicesInOrder[i]
    IN  Part(1) \o Part(2) \o Part(3) \o Part(4) \o Part(5)

\* the variables that do not depend on the dictionaries
FixedVarsAsClaimed(env_vars) ==
    /\ {"DEPLOY_SERVICES", "ENABLE_SCHEMA_VALIDATION"} \subseteq DOMAIN env_vars
    /\ env_vars["DEPLOY_SERVICES"] = ServicesWithCommas
    /\ env_vars["ENABLE_SCHEMA_VALIDATION"] =
          (IF request.adapter_config.present
                /\ request.adapter_config.enable_schema_validation = "True"
           THEN "true" ELSE "false")
    /\ DOMAIN env_vars =
          {"DEPLOY_SERVICES", "ENABLE_SCHEMA_VALIDATION"}
            \cup {DomainVar(k) : k \in Keys(request.domain_names)}
            \cup {ImageUrlVar(k) : k \in Keys(request.image_urls)}

\* the last entry of the dictionary whose key gives the variable
LastEntryOf(d, NameOf(_), name) ==
    d[CHOOSE i \in 1..Len(d) :
          /\ NameOf(d[i].key) = name
          /\ \A j \in 1..Len(d) : NameOf(d[j].key) = name => j <= i]

(* C28, as stated: get_deployment_environment_variables returns
   DEPLOY_SERVICES (the sorted services, joined with commas),
   ENABLE_SCHEMA_VALIDATION, one <KEY>_DOMAIN per entry of domain_names and
   one <KEY>_IMAGE_URL per entry of image_urls, <KEY> being the key in upper
   case with underscores for hyphens: 2 + |domain_names| + |image_urls|
   variables, each derived one with the value of its own entry. *)
EnvVars_OnePerEntry ==
    EnvVarsComputed =>
        LET env_vars == locals.env_vars_for_script
            d == request.domain_names
            u == request.image_urls
        IN  /\ FixedVarsAsClaimed(env_vars)
            /\ Cardinality(DOMAIN env_vars) = 2 + Len(d) + Len(u)
            /\ \A i \in 1..Len(d) : env_vars[DomainVar(d[i].key)] = d[i].value
            /\ \A i \in 1..Len(u) : env_vars[ImageUrlVar(u[i].key)] = u[i].value

(* C28, amended: the result has DEPLOY_SERVICES, ENABLE_SCHEMA_VALIDATION,
   and one <KEY>_DOMAIN and one <KEY>_IMAGE_URL variable per distinct name
   that the keys of domain_names and of image_urls give: entries whose keys
   differ only in the case of letters or in hyphens for underscores share
   one variable, which has the value of the last of them; the count is
   2 + |domain_names| + |image_urls| when no two keys of a dictionary give
   the same name. *)
EnvVars_OnePerName ==
    EnvVarsComputed =>
        LET env_vars == locals.env_vars_for_script
            d == request.domain_names
            u == request.image_urls
            domainVars == {DomainVar(k) : k \in Keys(d)}
            imageVars == {ImageUrlVar(k) : k \in Keys(u)}
        IN  /\ ResultOf("get_deployment_environment_variables") = "ok"
            /\ FixedVarsAsClaimed(env_vars)
            /\ Cardinality(DOMAIN env_vars) =
                  2 + Cardinality(domainVars) + Cardinality(imageVars)
            /\ \A x \in domainVars :
                  env_vars[x] = LastEntryOf(d, DomainVar, x).value
            /\ \A x \in imageVars :
                  env_vars[x] = LastEntryOf(u, ImageUrlVar, x).value
            /\ (Cardinality(domainVars) = Len(d)
                  /\ Cardinality(imageVars) = Len(u)) =>
                  /\ Cardinality(DOMAIN env_vars) = 2 + Len(d) + Len(u)
                  /\ \A i \in 1..Len(d) :
                        env_vars[DomainVar(d[i].key)] = d[i].value
                  /\ \A i \in 1..Len(u) :
                        env_vars[ImageUrlVar(u[i].key)] = u[i].value

\* registry_admin and registry-admin are both keys of domain_names: one
\* variable, with the domain of the second entry
EnvVars_OnePerName_Witness ==
    /\ EnvVarsComputed
    /\ request.domain_names =
          <<Entry("registry_admin", "a.com"), Entry("registry-admin", "b.com")>>
    /\ request.image_urls = <<Entry("Adapter", "repo/a:v1")>>
    /\ locals.env_vars_for_script["REGISTRY_ADMIN_DOMAIN"] = "b.com"
    /\ locals.env_vars_for_script["ADAPTER_IMAGE_URL"] = "repo/a:v1"
    /\ Cardinality(DOMAIN locals.env_vars_for_script) = 4

\* the launch of the script has been tried in the application flow
AppLaunchTried == flow = "app" /\ Called("create_subprocess_exec")

(* C29: the environment given to the script of the application flow is the
   environment of the server with the computed variables laid over it:
   every computed variable has its computed value, also when the server has
   a variable of that name, every other variable of the server is passed as
   it is, there is no other variable, and the environment of the server is
   the same before and after. *)
App_ScriptEnvironment ==
    flow = "app" =>
        /\ environ = Environ
        /\ AppLaunchTried =>
              LET env == ArgOf("create_subprocess_exec")
                  env_vars == locals.env_vars_for_script
              IN  /\ EnvVarsComputed
                  /\ env_vars =
                        get_deployment_environment_variables(
                            request, get_services_to_deploy(request))
                  /\ DOMAIN env = DOMAIN environ \cup DOMAIN env_vars
                  /\ \A x \in DOMAIN env_vars : env[x] = env_vars[x]
                  /\ \A x \in DOMAIN environ \ DOMAIN env_vars :
                        env[x] = environ[x]

\* the server has ENABLE_SCHEMA_VALIDATION and PATH: the script gets the
\* computed value of the first and the server's value of the second
App_ScriptEnvironment_Witness ==
    /\ AppLaunchTried
    /\ ResultOf("create_subprocess_exec") = "ok"
    /\ environ["ENABLE_SCHEMA_VALIDATION"] = "ambient"
    /\ ArgOf("create_subprocess_exec")["ENABLE_SCHEMA_VALIDATION"] = "true"
    /\ ArgOf("create_subprocess_exec")["PATH"] = "ambient"
    /\ ArgOf("create_subprocess_exec")["ADAPTER_DOMAIN"] = "a.com"

\* the URLs of the services have been derived in the application flow
UrlsExtracted == flow = "app" /\ Called("extract_final_urls")

\* the services of the run that have a domain in the request
ServicesWithDomain ==
    {x \in SeqToSet(locals.services) : HasKey(request.domain_names, x)}

\* adapter.yaml was read and the read failed, or what was read has no list
\* "modules"
NoModulesRead ==
    /\ Called("read_yaml_file")
    /\ \/ ResultOf("read_yaml_file") # "ok"
       \/ ArgOf("read_yaml_file").kind # "modules"

(* C30: extract_final_urls does not raise. Every deployed service with a
   domain in the request gets the URL https://{domain} and a service without
   one gets none; when adapter.yaml cannot be read or parsed, or has no list
   of modules, the adapter has its base URL and there is no adapter_<module>
   entry; and the application flow sends its success message all the same. *)
Urls_AdapterDegradesToBase ==
    UrlsExtracted =>
        /\ ResultOf("extract_final_urls") = "ok"
        /\ Called("read_yaml_file") <=> "adapter" \in ServicesWithDomain
        /\ pc \in {"returned", "raised"}
        /\ wsOpen => pc = "returned"
        /\ pc = "returned" =>
              /\ Len(Successes) = 1
              /\ Errors = <<>>
              /\ LET service_urls == Successes[1].data.service_urls
                 IN  /\ ServicesWithDomain \subseteq DOMAIN service_urls
                     /\ \A x \in ServicesWithDomain :
                           service_urls[x] =
                               "https://" \o ValueOf(request.domain_names, x)
                     /\ \A x \in SeqToSet(locals.services) \ ServicesWithDomain :
                           x \notin DOMAIN service_urls
                     /\ NoModulesRead =>
                           DOMAIN service_urls = ServicesWithDomain

\* adapter.yaml is not YAML: the success message has the base URL of the
\* adapter and nothing else
Urls_AdapterDegradesToBase_Witness ==
    /\ UrlsExtracted
    /\ ResultOf("read_yaml_file") = "ValueError"
    /\ pc = "returned"
    /\ Successes # <<>>
    /\ DOMAIN Successes[1].data.service_urls = {"adapter"}
    /\ Successes[1].data.service_urls["adapter"] = "https://a.com"

\* the log-query URLs have been derived in the application flow
LogUrlsGenerated == flow = "app" /\ Called("generate_logs_explorer_urls")

\* what the derivation of the log-query URLs has loaded, and whether it has
\* resolved the three outputs it needs
OutputsLoaded == ArgOf("_load_infrastructure_outputs")
OutputsResolved ==
    /\ ResultOf("_load_infrastructure_outputs") = "ok"
    /\ {"project_id", "cluster_name", "cluster_region"}
          \subseteq DOMAIN OutputsLoaded.data

(* C31: generate_logs_explorer_urls does not raise; whenever it fails to
   resolve the outputs of the infrastructure that it needs (the project id,
   the name of the cluster, the region of the cluster), the result is the
   empty map, and the application flow sends its success message with that
   empty map. *)
LogUrls_EmptyWhenUnresolved ==
    LogUrlsGenerated =>
        /\ ResultOf("generate_logs_explorer_urls") = "ok"
        /\ pc \in {"returned", "raised"}
        /\ wsOpen => pc = "returned"
        /\ pc = "returned" =>
              /\ Len(Successes) = 1
              /\ Successes[1] = sent[Len(sent)]
              /\ ~OutputsResolved =>
                    Successes[1].data.logs_explorer_urls = <<>>

(***************************************************************************)
(* generate_app_configs run again and again on the same directories        *)
(* (app_config_generator.py lines 138-193): every application deployment   *)
(* of the server calls it, with the request of that deployment, on         *)
(* GENERATED_CONFIGS_DIR and terraform/phase2 as the earlier runs left     *)
(* them. A run is recorded in calls with its request, the outputs.json it  *)
(* read and the files it left.                                             *)
(***************************************************************************)
MaxRuns == 2

\* the requests of the runs: bap alone, the gateway alone, the registry
\* alone, and bap with another domain for the adapter
RunRequests ==
    {Request([k \in {"bap"} |-> TRUE], <<Entry("adapter", "a.com")>>, <<>>,
             BapRequest.adapter_config),
     Request([k \in {"bap"} |-> TRUE], <<Entry("adapter", "b.com")>>, <<>>,
             BapRequest.adapter_config),
     Request([k \in {"gateway"} |-> TRUE], <<Entry("gateway", "a.com")>>, <<>>,
             BapRequest.adapter_config),
     Request([k \in {"registry"} |-> TRUE], <<Entry("registry", "a.com")>>,
             <<>>, BapRequest.adapter_config)}

\* what is kept of a run: it returned ("ok"), or it raised
Run(app_deployment_request, outputs, fs, result) ==
    CallOn("generate_app_configs",
           [request |-> app_deployment_request, outputs |-> outputs,
            files |-> fs],
           IF result = "ok" THEN "ok" ELSE "raised")

MaterializeInit ==
    /\ PollerIdle
    /\ flow = "generate_app_configs"
    /\ request = NoRequest
    /\ files \in InitialFiles
    /\ environ = Environ
    /\ locals = NoLocals
    /\ pc = "idle"
    /\ process = NoProcess
    /\ nread = 0
    /\ logged = <<>>
    /\ sent = <<>>
    /\ calls = <<>>
    /\ wsOpen = TRUE
    /\ exc = "none"

\* one call of generate_app_configs, with the request of a deployment
GenerateAppConfigs ==
    /\ flow = "generate_app_configs"
    /\ Len(calls) < MaxRuns
    /\ \E app_deployment_request \in RunRequests :
       \E outcome \in GenerateOutcomes(app_deployment_request, files) :
          /\ request' = app_deployment_request
          /\ files' = outcome.files
          /\ calls' = Append(calls, Run(app_deployment_request, files.outputs,
                                        outcome.files, outcome.result))
    /\ UNCHANGED <<pc, sent, wsOpen, exc, environ, locals>>
    /\ UNCHANGED pollerVars
    /\ UNCHANGED deployVars

\* an infrastructure deployment between two runs leaves another outputs.json
\* (deployment_manager.py lines 49-74: the script of run_infra_deployment
\* writes it)
OutputsRewritten ==
    /\ flow = "generate_app_configs"
    /\ Len(calls) < MaxRuns
    /\ \E a \in Artifacts :
          /\ a # files.outputs
          /\ files' = [files EXCEPT !.outputs = a]
    /\ UNCHANGED <<pc, sent, calls, wsOpen, exc, request, environ, locals>>
    /\ UNCHANGED pollerVars
    /\ UNCHANGED deployVars

MaterializeNext == GenerateAppConfigs \/ OutputsRewritten

MaterializeSpec == MaterializeInit /\ [][MaterializeNext]_vars

\* the runs that have returned, and the files of GENERATED_CONFIGS_DIR
RunsDone == {i \in 1..Len(calls) : calls[i].result = "ok"}
GeneratedConfigs(fs) ==
    {f \in DOMAIN fs.present :
        SubSeq(f, 1, Len("generated_configs/")) = "generated_configs/"}

(* C32: generate_app_configs is idempotent: a second run with the same
   request and the same outputs.json, right behind a run that has returned,
   leaves the same files with the same contents as that run did, whatever
   the order is in which the two runs take the templates. *)
Generate_Idempotent ==
    flow = "generate_app_configs" =>
        \A i \in RunsDone :
            (/\ i + 1 \in RunsDone
             /\ calls[i + 1].arg.request = calls[i].arg.request
             /\ calls[i + 1].arg.outputs = calls[i].arg.outputs)
            => /\ calls[i + 1].arg.files.present = calls[i].arg.files.present
               /\ calls[i + 1].arg.files.dirs = calls[i].arg.files.dirs

\* two runs for bap on the same outputs.json, both returned
Generate_Idempotent_Witness ==
    /\ flow = "generate_app_configs"
    /\ RunsDone = {1, 2}
    /\ calls[1].arg.request = calls[2].arg.request
    /\ calls[1].arg.outputs = calls[2].arg.outputs
    /\ "generated_configs/adapter.yaml" \in DOMAIN files.present
    /\ files = calls[2].arg.files

\* the files of the services of a request in GENERATED_CONFIGS_DIR
ConfigsOfRequest(app_deployment_request) ==
    {FileOfTemplate[TemplateOfService[x]] :
        x \in SeqToSet(get_services_to_deploy(app_deployment_request))}

\* the last call of generate_app_configs has returned
LastRunDone == flow = "generate_app_configs" /\ Len(calls) \in RunsDone

(* C38, as stated: after any sequence of runs of generate_app_configs that
   returned, GENERATED_CONFIGS_DIR has the file of a service only for the
   services of the last request: a file that an earlier run wrote for a
   component that is now off is not there. *)
Generated_OnlyLastRequest ==
    (LastRunDone /\ RunsDone = 1..Len(calls)) =>
        GeneratedConfigs(files) = ConfigsOfRequest(request)

(* C38, amended: generate_app_configs removes no file. After a run that
   returned, GENERATED_CONFIGS_DIR has the files of the services of the last
   request, rendered for that request, and every other file that was there
   before the run, as it was: after a sequence of runs that returned, on a
   directory that was empty, it has the files of the services of all the
   requests of the sequence. The runs are recorded one by one and a record
   is never changed, so the statement about a run is made of the last one. *)
Generated_AccumulatesOverRuns ==
    flow = "generate_app_configs" =>
        /\ \A i \in {Len(calls)} \ {0} :
              LET before == IF i = 1 THEN <<>>
                            ELSE calls[i - 1].arg.files.present
                  after == calls[i].arg.files.present
                  mine == ConfigsOfRequest(calls[i].arg.request)
              IN  /\ DOMAIN before \subseteq DOMAIN after
                  /\ \A f \in GeneratedConfigs(calls[i].arg.files) :
                        \/ f \in mine
                        \/ f \in DOMAIN before /\ after[f] = before[f]
                  /\ i \in RunsDone =>
                        /\ mine \subseteq DOMAIN after
                        /\ \A f \in mine :
                              after[f].context.domains =
                                  calls[i].arg.request.domain_names
        /\ (LastRunDone /\ RunsDone = 1..Len(calls)) =>
              GeneratedConfigs(files) =
                  UNION {ConfigsOfRequest(calls[i].arg.request) :
                            i \in 1..Len(calls)}

\* a run for bap and then a run for the registry: the files of the adapter
\* and of the subscriber are still there
Generated_AccumulatesOverRuns_Witness ==
    /\ LastRunDone
    /\ RunsDone = {1, 2}
    /\ get_services_to_deploy(request) = <<"registry", "registry_admin">>
    /\ GeneratedConfigs(files) =
          {"generated_configs/adapter.yaml", "generated_configs/subscriber.yaml",
           "generated_configs/registry.yaml",
           "generated_configs/registry-admin.yaml"}

(***************************************************************************)
(* Two application deployments at once (main.py lines 120-145: every       *)
(* connection to /ws/deployApp runs run_app_deployment as a coroutine of   *)
(* its own). A session has its request, its services and its messages; the *)
(* files are those of the server: GENERATED_CONFIGS_DIR and                *)
(* TERRAFORM_DIRECTORY are module constants (core/constants.py lines       *)
(* 28-37). A session gives way to the other at its awaits: between the     *)
(* generation and the end of its script. locals has the state of each      *)
(* session.                                                                *)
(***************************************************************************)
Sessions == {1, 2}

\* the requests of the two sessions: bap, and bpp, each with a domain of its
\* own for the adapter
SessionRequest ==
    <<Request([k \in {"bap"} |-> TRUE], <<Entry("adapter", "a.com")>>, <<>>,
              BapRequest.adapter_config),
      Request([k \in {"bpp"} |-> TRUE], <<Entry("adapter", "b.com")>>, <<>>,
              BapRequest.adapter_config)>>

NoPayload == [type |-> "none"]
Session(pos, last_message) == [pc |-> pos, payload |-> last_message]

\* the modules that adapter.yaml.j2 renders: those of bap when bap is
\* deployed, those of bpp when bpp is
RenderedModules(context) ==
    (IF context.deploy_bap THEN <<Module("bap_receiver")>> ELSE <<>>)
        \o (IF context.deploy_bpp THEN <<Module("bpp_caller")>> ELSE <<>>)

\* core/utils.py lines 92-109: read_yaml_file on adapter.yaml as it is in
\* GENERATED_CONFIGS_DIR
AdapterYamlOf(fs) ==
    IF OutputPath(GENERATED_CONFIGS_DIR, ADAPTER_CONFIG_TEMPLATE_NAME)
          \in DOMAIN fs.present
    THEN [state |-> "ok", kind |-> "modules",
          modules |->
              RenderedModules(
                  fs.present[OutputPath(GENERATED_CONFIGS_DIR,
                                        ADAPTER_CONFIG_TEMPLATE_NAME)].context)]
    ELSE [state |-> "missing", kind |-> "None", modules |-> <<>>]

\* deployment_manager.py lines 170-193: the success message of a session,
\* from the files as they are when its script has exited
SessionPayload(app_deployment_request, fs) ==
    MsgAppSuccess(
        extract_final_urls(app_deployment_request.domain_names,
                           get_services_to_deploy(app_deployment_request),
                           AdapterYamlOf(fs)),
        get_services_to_deploy(app_deployment_request),
        generate_logs_explorer_urls(
            get_services_to_deploy(app_deployment_request), fs.outputs))

SessionsInit ==
    /\ PollerIdle
    /\ flow = "sessions"
    /\ request = NoRequest
    /\ files \in InitialFiles
    /\ environ = Environ
    /\ locals = [s \in Sessions |-> Session("generate", NoPayload)]
    /\ pc = "idle"
    /\ process = NoProcess
    /\ nread = 0
    /\ logged = <<>>
    /\ sent = <<>>
    /\ calls = <<>>
    /\ wsOpen = TRUE
    /\ exc = "none"

SessionFrame ==
    /\ UNCHANGED <<pc, sent, calls, wsOpen, exc, request, environ>>
    /\ UNCHANGED pollerVars
    /\ UNCHANGED deployVars

\* lines 132-162 of a session: the configs are generated and the script is
\* launched, or the generation fails and the session ends with its error
SessionGenerate(s) ==
    /\ flow = "sessions"
    /\ locals[s].pc = "generate"
    /\ \E outcome \in GenerateOutcomes(SessionRequest[s], files) :
          /\ files' = outcome.files
          /\ locals' =
                [locals EXCEPT ![s] =
                    IF outcome.result = "ok" THEN Session("wait", NoPayload)
                    ELSE Session("returned", AppErrorMessage(outcome.result))]
    /\ SessionFrame

\* lines 164-199 of a session: its script has exited, with 0 or not, and
\* the session sends its last message
SessionWait(s) ==
    /\ flow = "sessions"
    /\ locals[s].pc = "wait"
    /\ \E return_code \in ExitCodes :
          locals' =
              [locals EXCEPT ![s] =
                  Session("returned",
                          IF ScriptSucceeded(return_code)
                          THEN SessionPayload(SessionRequest[s], files)
                          ELSE MsgAppScriptFailed(return_code))]
    /\ UNCHANGED files
    /\ SessionFrame

SessionsNext == \E s \in Sessions : SessionGenerate(s) \/ SessionWait(s)

SessionsSpec == SessionsInit /\ [][SessionsNext]_vars

\* the success message of a session that runs alone: with the adapter.yaml
\* of its own request
PayloadAlone(s) ==
    [type |-> "success", action |-> "app_deploy_complete",
     message |-> <<"Application deployment successful!">>,
     data |-> [service_urls |->
                   IF s = 1
                   THEN ("adapter" :> "https://a.com")
                          @@ ("adapter_bap_receiver" :> "https://a.com/bap/receiver")
                   ELSE ("adapter" :> "https://b.com")
                          @@ ("adapter_bpp_caller" :> "https://b.com/bpp/caller"),
               services_deployed |-> <<"adapter", "subscriber">>,
               logs_explorer_urls |->
                   generate_logs_explorer_urls(<<"adapter", "subscriber">>,
                                               files.outputs)]]

(* C33: two sessions that run at once for different requests do not affect
   each other: however their steps interleave, the success message of each
   session (the service URLs with those of the modules of the adapter, the
   log-query URLs) is the one the session sends when it runs alone. *)
Sessions_Independent ==
    flow = "sessions" =>
        \A s \in Sessions :
            (locals[s].pc = "returned" /\ locals[s].payload.type = "success")
            => locals[s].payload = PayloadAlone(s)
(***************************************************************************)
(* The poller on a clock that advances by exactly the delay between two    *)
(* deadline checks: one service, whose probe answers 200 or 503.  The      *)
(* attempts are not capped here: the deadline ends the loop.               *)
(***************************************************************************)
\* the payloads of one service
OneServicePayloads == {p \in ValidPayloads : Len(p.items) = 1}

\* the answers of the service: healthy, or not
OnTimeOutcomes == {o \in Outcomes : o.kind = "response"
                                     /\ o.status \in {"200", "503"}}

OnTimeInit ==
    /\ Init
    /\ payload \in OneServicePayloads

\* perform_single_health_check with one of the two answers
OnTimeProbe ==
    \E n \in ServiceNames :
        /\ ProbeComplete(n)
        /\ probes'[n].st = "done" => probes'[n].outcome \in OnTimeOutcomes

\* line 175: asyncio.sleep(delay_between_attempts) ends after exactly the
\* delay, and nothing else has taken time
OnTimeWake ==
    /\ pc = "sleeping"
    /\ now' = now + HEALTH_CHECK_ATTEMPT_DELAY_SECONDS
    /\ pc' = "loop"
    /\ UNCHANGED <<payload, pending, attempt, start_time, tasks, probes, sent,
                   calls, wsOpen, clientOpen, exc>>
    /\ UNCHANGED deployVars
    /\ UNCHANGED appVars

OnTimeNext ==
    \/ SendStartNotice
    \/ EnterPolling
    \/ StartAttempt
    \/ OnTimeProbe
    \/ GatherReturn
    \/ GatherRaise
    \/ OnTimeWake
    \/ ChannelBreaks

OnTimeSpec == OnTimeInit /\ [][OnTimeNext]_vars

\* floor(T/D) + 1
AttemptsOnTime ==
    (HEALTH_CHECK_TIMEOUT_SECONDS \div HEALTH_CHECK_ATTEMPT_DELAY_SECONDS) + 1

\* the attempts announced so far
AttemptsMade == Cardinality({i \in 1..Len(sent) : IsAttempt(sent[i])})

NonePassed == \A i \in 1..Len(sent) : ~IsPassed(sent[i])

(***************************************************************************)
(* C34: when no service passes and the clock advances by exactly the delay *)
(* D between two deadline checks, the k-th check sees (k-1)*D elapsed      *)
(* seconds; an attempt is made at every check up to number floor(T/D)+1,   *)
(* the last of them with the elapsed time equal to the deadline T, and the *)
(* check after it sends the timeout error and ends the run: the loop head  *)
(* is never passed more than floor(T/D)+2 times.                           *)
(***************************************************************************)
HC_AttemptsOnTime ==
    (flow = "health_check" /\ PollingEntered /\ NonePassed) =>
        /\ attempt <= AttemptsOnTime + 1
        /\ AttemptsMade <= AttemptsOnTime
        /\ \A i \in 1..Len(sent) :
              IsAttempt(sent[i]) =>
                 /\ sent[i].elapsed =
                       (sent[i].attempt - 1) * HEALTH_CHECK_ATTEMPT_DELAY_SECONDS
                 /\ sent[i].elapsed <= HEALTH_CHECK_TIMEOUT_SECONDS
        /\ (attempt = AttemptsOnTime + 1 /\ wsOpen) =>
              /\ pc = "returned"
              /\ IsTimeout(LastSent)
              /\ AttemptsMade = AttemptsOnTime
              /\ sent[AttemptIndex(AttemptsOnTime)].elapsed =
                    HEALTH_CHECK_TIMEOUT_SECONDS
        /\ TimeoutSent =>
              /\ attempt = AttemptsOnTime + 1
              /\ AttemptsMade = AttemptsOnTime
        /\ (pc = "returned" /\ wsOpen) => TimeoutSent

HC_AttemptsOnTime_Witness ==
    /\ flow = "health_check"
    /\ NonePassed
    /\ pc = "returned"
    /\ TimeoutSent
    /\ AttemptsMade = AttemptsOnTime
    /\ sent[AttemptIndex(AttemptsOnTime)].elapsed = HEALTH_CHECK_TIMEOUT_SECONDS
\* the keys of service_urls_to_check
KeysOf(p) == {p.items[i][1].v : i \in 1..Len(p.items)}

\* the result messages sent so far name a service of the payload with the
\* address the payload gives it
ResultsOfPayload ==
    \A i \in 1..Len(sent) :
        IsResult(sent[i]) =>
            \E j \in 1..Len(payload.items) :
                /\ payload.items[j][1].v = sent[i].service
                /\ payload.items[j][2].v = sent[i].url

(***************************************************************************)
(* C35: in every step of a health-check run the pending set holds services *)
(* of the initial map only, each probed at the address the map gives it,   *)
(* and once polling has been entered a step never adds a service to it: a  *)
(* service that was removed does not come back.                            *)
(***************************************************************************)
HC_PendingShrinks ==
    [][flow = "health_check" =>
          /\ SeqToSet(pending') \subseteq KeysOf(payload')
          /\ payload' = payload
          /\ ResultsOfPayload'
          /\ pc # "started" => SeqToSet(pending') \subseteq SeqToSet(pending)]_vars

HC_PendingShrinks_Witness ==
    /\ flow = "health_check"
    /\ Len(payload.items) = 2
    /\ Len(pending) = 1
    /\ attempt = 2
    /\ pc = "sleeping"
    /\ ResultsOfPayload
\* the positions of the outcome messages in the log
OutcomeIndexes ==
    {i \in 1..Len(sent) : IsAllHealthy(sent[i]) \/ IsTimeout(sent[i])}

\* run_websocket_health_check has returned from its polling loop
ReturnedFromPolling ==
    /\ pc = "returned"
    /\ ValidPayload(payload)
    /\ Len(payload.items) > 0

(***************************************************************************)
(* C36: a run of the poller on a valid non-empty map that returns normally *)
(* has sent exactly one outcome message, all_services_healthy or           *)
(* health_check_timeout, and it is the last message of the run; no run     *)
(* sends more than one outcome message, and a timeout message names at     *)
(* least one service.                                                      *)
(***************************************************************************)
HC_OneOutcomeLast ==
    flow = "health_check" =>
        /\ Cardinality(OutcomeIndexes) <= 1
        /\ \A i \in 1..Len(sent) :
              IsTimeout(sent[i]) => Len(sent[i].unhealthy) > 0
        /\ ReturnedFromPolling => OutcomeIndexes = {Len(sent)}
        /\ OutcomeIndexes # {} => ReturnedFromPolling

HC_OneOutcomeLast_Witness ==
    /\ flow = "health_check"
    /\ ReturnedFromPolling
    /\ IsTimeout(LastSent)
    /\ attempt = 2
    /\ Len(LastSent.unhealthy) = 1
    /\ Len(payload.items) = 2
\* the perform_single_health_check tasks that have not ended
ProbesRunning == {n \in ServiceNames : probes[n].st = "running"}

(***************************************************************************)
(* C37: when run_websocket_health_check has ended, by returning or by      *)
(* raising, no probe that it started is still running (a running probe     *)
(* awaits client.get on the client that the poller has closed), and no     *)
(* step after the end delivers a per-service result message.               *)
(***************************************************************************)
HC_NoProbeOutlivesPoller ==
    [][(flow = "health_check" /\ Ended') =>
          /\ ProbesRunning' = {}
          /\ Ended => sent' = sent]_vars
(***************************************************************************)
(* The UI key-value store of services/ui_state_manager.py.                 *)
(*   POST /store/bulk is a synchronous endpoint: the server runs each      *)
(*   request on a thread of its pool, so calls of store_bulk_values can    *)
(*   overlap.  A thread is in locals, the file ui_state.json in files and  *)
(*   the calls begun so far in calls.                                      *)
(***************************************************************************)
\* the calls of store_bulk_values that are begun in one run of the model
MaxStores == 2

Threads == {1, 2}
StoreKeys == {"k1", "k2"}
StoreValues == {"v1", "v2"}

\* a dictionary over the keys: the value of a key, or Absent
Absent == "absent"
StoreDicts == [StoreKeys -> StoreValues \cup {Absent}]
EmptyDict == [k \in StoreKeys |-> Absent]

\* the bodies of the requests: at least one key
ItemDicts == StoreDicts \ {EmptyDict}

\* ui_state.json before the first call: not there, or holding a value
InitialStores ==
    { [state |-> "missing", data |-> EmptyDict],
      [state |-> "json", data |-> [k \in StoreKeys |->
                                      IF k = "k1" THEN "v0" ELSE Absent]] }

\* load_all_data: {} when the file is missing or empty, else its content
LoadAllData(file) ==
    IF file.state \in {"missing", "empty"} THEN EmptyDict ELSE file.data

\* data_store.update(items)
DictUpdate(data_store, items) ==
    [k \in StoreKeys |-> IF items[k] # Absent THEN items[k] ELSE data_store[k]]

IdleThread == [pc |-> "idle", id |-> 0, data_store |-> EmptyDict]

StoreInit ==
    /\ flow = "store"
    /\ \E f \in InitialStores :
          files = [state |-> f.state, data |-> f.data, initial |-> LoadAllData(f)]
    /\ locals = [t \in Threads |-> IdleThread]
    /\ calls = <<>>
    /\ payload = [kind |-> "dict", items |-> <<>>]
    /\ pc = "idle"
    /\ pending = <<>>
    /\ attempt = 0
    /\ start_time = 0
    /\ now = 0
    /\ tasks = <<>>
    /\ probes = [n \in ServiceNames |-> IdleProbe]
    /\ sent = <<>>
    /\ wsOpen = TRUE
    /\ clientOpen = FALSE
    /\ exc = "none"
    /\ process = NoProcess
    /\ nread = 0
    /\ logged = <<>>
    /\ request = NoRequest
    /\ environ = Environ

StoreFrame ==
    UNCHANGED <<payload, pc, pending, attempt, start_time, now, tasks, probes,
                sent, wsOpen, clientOpen, exc, flow, process, nread, logged,
                request, environ>>

\* lines 58-63 on a thread of the pool: the request is taken, the file is
\* read and the items are put into the dictionary that was read
StoreLoad(t) ==
    /\ locals[t].pc = "idle"
    /\ Len(calls) < MaxStores
    /\ \E items \in ItemDicts :
          /\ calls' = Append(calls,
                 [items |-> items,
                  after |-> {i \in 1..Len(calls) : calls[i].done},
                  done |-> FALSE])
          /\ locals' = [locals EXCEPT ![t] =
                 [pc |-> "save", id |-> Len(calls) + 1,
                  data_store |-> DictUpdate(LoadAllData(files), items)]]
    /\ UNCHANGED files
    /\ StoreFrame

\* line 51: open(file_path, "w") creates the file or empties it
SaveOpen(t) ==
    /\ locals[t].pc = "save"
    /\ files' = [files EXCEPT !.state = "empty", !.data = EmptyDict]
    /\ locals' = [locals EXCEPT ![t].pc = "dump"]
    /\ UNCHANGED calls
    /\ StoreFrame

\* lines 52-65: json.dump writes the dictionary, the file is closed and the
\* call returns
SaveDump(t) ==
    /\ locals[t].pc = "dump"
    /\ files' = [files EXCEPT !.state = "json", !.data = locals[t].data_store]
    /\ calls' = [calls EXCEPT ![locals[t].id].done = TRUE]
    /\ locals' = [locals EXCEPT ![t] = IdleThread]
    /\ StoreFrame

StoreNext ==
    \E t \in Threads : StoreLoad(t) \/ SaveOpen(t) \/ SaveDump(t)

StoreSpec == StoreInit /\ [][StoreNext]_vars

\* every call that was begun has returned
StoresCompleted == \A i \in 1..Len(calls) : calls[i].done

\* the calls that wrote key k
WritersOf(k) == {i \in 1..Len(calls) : calls[i].items[k] # Absent}

\* the writers of k that no other writer of k follows: a call follows
\* another when it began after the other had returned
LastWritersOf(k) ==
    {i \in WritersOf(k) : \A j \in WritersOf(k) : i \notin calls[j].after}

(***************************************************************************)
(* C39: when the calls of store_bulk_values that were made, one after      *)
(* another or overlapping, have all returned, the store holds every key    *)
(* that a call wrote, with the value of a last call that wrote it, and     *)
(* every other key with the value it had before: no update is lost.        *)
(***************************************************************************)
Store_NoLostUpdate ==
    (flow = "store" /\ StoresCompleted) =>
        \A k \in StoreKeys :
            IF WritersOf(k) = {}
            THEN LoadAllData(files)[k] = files.initial[k]
            ELSE \E i \in LastWritersOf(k) :
                    LoadAllData(files)[k] = calls[i].items[k]
(***************************************************************************)
(* The WebSocket handlers of main.py: websocket_deploy_infra,              *)
(* websocket_deploy_application and websocket_health_check.  Each          *)
(* connection is served by its own run of a handler; the flow that the     *)
(* handler awaits is taken by its outcome here: it returns, or it raises.  *)
(* A connection is in locals.                                              *)
(***************************************************************************)
Connections == {1, 2}
Endpoints == {"deployInfra", "deployApp", "healthCheck"}

\* Python values: an int, and a member of starlette's WebSocketState, which
\* is a plain enum.Enum (CONNECTING = 0, CONNECTED = 1, DISCONNECTED = 2)
PyInt(n) == [t |-> "int", v |-> n]
WebSocketState(n) == [t |-> "WebSocketState", v |-> n]
CONNECTING == WebSocketState(0)
CONNECTED == WebSocketState(1)
DISCONNECTED == WebSocketState(2)

\* a == b: ints are equal by value, members of an Enum by identity, and a
\* member of a plain Enum is not equal to the int that is its value
PyEq(a, b) == a.t = b.t /\ a.v = b.v

\* what the client sends after the handshake: a JSON object of the shape
\* the endpoint expects, a JSON value of another shape, text that is not
\* JSON, or nothing (it disconnects)
ClientFrames == {"request", "other_json", "not_json", "disconnect"}

NewConnection(endpoint) ==
    [endpoint |-> endpoint, pc |-> "accept", client_state |-> CONNECTING,
     application_state |-> CONNECTING, usable |-> TRUE, out |-> <<>>,
     exc |-> "none"]

MsgInvalidJson == [type |-> "error", message |-> "Invalid JSON payload."]
MsgHandlerError(e) == [type |-> "error", message |-> e]

HandlersInit ==
    /\ flow = "handlers"
    /\ locals \in [Connections -> {NewConnection(e) : e \in Endpoints}]
    /\ files = NoFiles
    /\ calls = <<>>
    /\ payload = [kind |-> "dict", items |-> <<>>]
    /\ pc = "idle"
    /\ pending = <<>>
    /\ attempt = 0
    /\ start_time = 0
    /\ now = 0
    /\ tasks = <<>>
    /\ probes = [n \in ServiceNames |-> IdleProbe]
    /\ sent = <<>>
    /\ wsOpen = TRUE
    /\ clientOpen = FALSE
    /\ exc = "none"
    /\ process = NoProcess
    /\ nread = 0
    /\ logged = <<>>
    /\ request = NoRequest
    /\ environ = Environ

HandlersFrame ==
    UNCHANGED <<payload, pc, pending, attempt, start_time, now, tasks, probes,
                sent, calls, wsOpen, clientOpen, exc, flow, process, nread,
                logged, request, files, environ>>

\* websocket.send_text(m) in an except block of the handler: the message is
\* delivered, or the send raises and the exception leaves the handler
\* through its finally block
HandlerSend(w, m) ==
    IF w.usable
    THEN [w EXCEPT !.out = Append(w.out, m), !.pc = "finally"]
    ELSE [w EXCEPT !.exc = "send_failed", !.pc = "finally"]

\* await websocket.accept(): the handshake is completed
HandlerAccept(c) ==
    /\ locals[c].pc = "accept"
    /\ locals' = [locals EXCEPT ![c].client_state = CONNECTED,
                                ![c].application_state = CONNECTED,
                                ![c].pc = "receive"]
    /\ HandlersFrame

\* await websocket.receive_json() and the construction of the request, up
\* to the call of the flow: WebSocketDisconnect is logged, JSONDecodeError
\* and any other exception are reported to the client
HandlerReceive(c) ==
    /\ locals[c].pc = "receive"
    /\ \E frame \in ClientFrames :
          LET w == locals[c] IN
          locals' = [locals EXCEPT ![c] =
              CASE frame = "disconnect" ->
                     [w EXCEPT !.client_state = DISCONNECTED,
                               !.usable = FALSE, !.pc = "finally"]
                [] frame = "not_json" -> HandlerSend(w, MsgInvalidJson)
                [] frame = "other_json" ->
                     HandlerSend(w, MsgHandlerError("bad request"))
                [] OTHER -> [w EXCEPT !.pc = "flow"]]
    /\ HandlersFrame

\* the awaited flow ends: it returns, or it raises and the exception is
\* reported to the client
HandlerFlowEnds(c) ==
    /\ locals[c].pc = "flow"
    /\ \E outcome \in {"returned", "raised"} :
          LET w == locals[c] IN
          locals' = [locals EXCEPT ![c] =
              IF outcome = "returned"
              THEN [w EXCEPT !.pc = "finally"]
              ELSE HandlerSend(w, MsgHandlerError("flow failed"))]
    /\ HandlersFrame

\* finally: if websocket.client_state == 1: await websocket.close()
HandlerFinally(c) ==
    /\ locals[c].pc = "finally"
    /\ locals' = [locals EXCEPT ![c] =
          IF PyEq(locals[c].client_state, PyInt(1))
          THEN [locals[c] EXCEPT !.application_state = DISCONNECTED,
                                 !.pc = "done"]
          ELSE [locals[c] EXCEPT !.pc = "done"]]
    /\ HandlersFrame

\* the client's side of the connection goes away while the handler runs:
\* later sends raise; client_state is changed by a receive only
ClientGoesAway(c) ==
    /\ locals[c].pc \in {"receive", "flow"}
    /\ locals[c].usable
    /\ locals' = [locals EXCEPT ![c].usable = FALSE]
    /\ HandlersFrame

HandlersNext ==
    \E c \in Connections :
        \/ HandlerAccept(c)
        \/ HandlerReceive(c)
        \/ HandlerFlowEnds(c)
        \/ HandlerFinally(c)
        \/ ClientGoesAway(c)

HandlersSpec == HandlersInit /\ [][HandlersNext]_vars

(***************************************************************************)
(* C40: when a WebSocket handler has finished, on whatever path, and the   *)
(* connection was still in the CONNECTED state when its finally block ran, *)
(* the handler has closed it: no finished handler leaves its connection    *)
(* connected.                                                              *)
(***************************************************************************)
Handler_ClosesConnection ==
    flow = "handlers" =>
        \A c \in Connections :
            (locals[c].pc = "done" /\ locals[c].client_state = CONNECTED)
            => locals[c].application_state = DISCONNECTED
====
